---------------------------- MODULE Spec2Model ----------------------------
(***************************************************************************)
(* RentGuard360: the score recalculation of the ai-analyzer lambda          *)
(* (recalculate_scores) and the privacy-shield lambda: its handler and its  *)
(* helper functions (direction correction, PII masking, OCR noise cleaning, *)
(* clause splitting, contract confidence).                                  *)
(*                                                                         *)
(* Spec is recalculate_scores, ShieldSpec is privacy-shield's               *)
(* lambda_handler, HelperSpec is one call of one helper function, OcrSpec    *)
(* is the extraction loop of RentGuard_AzureOCR's lambda_handler and        *)
(* OcrFairSpec the same loop with every step of the handler taken.          *)
(*                                                                         *)
(* Python values that can have several types (a JSON field) are tagged      *)
(* records [t, n, s]: t the Python type, n the number, s the characters.    *)
(* Python dicts are TLA+ records that hold exactly the keys present.        *)
(* Strings are sequences of one-character strings.                          *)
(***************************************************************************)
EXTENDS Integers, Sequences, FiniteSets, TLC

VARIABLES
    analysis_in,            \* the dict recalculate_scores was called with
    analysis_json,          \* the same dict, as mutated by the call
    pc,                     \* position in recalculate_scores
    idx,                    \* 1-based position of the for loop in issues
    category_scores,        \* local: category -> score
    category_penalties_sum, \* local: category -> sum of penalties
    filtered_issues,        \* local: accepted issues so far
    exc                     \* the exception that left the call, "" if none

scoreVars == <<analysis_in, analysis_json, pc, idx, category_scores,
               category_penalties_sum, filtered_issues, exc>>

VARIABLES
    event,          \* the event dict given to privacy-shield's lambda_handler
    text,           \* local text of lambda_handler, a string
    pii_found,      \* local pii_found of sanitize_pii
    pii_i,          \* 1-based position of sanitize_pii's loop in PII_PATTERNS
    spc,            \* position in privacy-shield's lambda_handler
    result          \* the dict lambda_handler returned

shieldVars == <<event, text, pii_found, pii_i, spc, result>>

VARIABLES
    fn,             \* the helper function of privacy-shield.py that is called
    arg,            \* the string it is called with
    hpc,            \* position in the call
    clauses,        \* local clauses of split_to_clauses
    final_clauses,  \* local final_clauses of split_to_clauses
    ret             \* the value the call returned

helperVars == <<fn, arg, hpc, clauses, final_clauses, ret>>

VARIABLES
    opc,             \* position in the extraction loop of the OCR handler
    start_page,      \* the variable of the for loop
    response_status, \* response.status of the last analyze request
    status,          \* status of the polled operation
    retries,         \* polls made for the batch
    pages_returned,  \* len(pages) of the last batch that succeeded
    all_text,        \* the contents appended: the first page of each batch
    total_pages,     \* pages counted so far
    most_pages,      \* the most pages the service returned for one batch
    ocr_result       \* the dict the OCR handler returned

ocrVars == <<opc, start_page, response_status, status, retries, pages_returned,
             all_text, total_pages, most_pages, ocr_result>>

vars == <<scoreVars, shieldVars, helperVars, ocrVars>>

---------------------------------------------------------------------------
(* Bounds of the model *)

\* longest issues list given to recalculate_scores
MaxIssues == 2

\* most tokens an extracted text is made of
MaxTokens == 3

\* most tokens of a string given to detect_and_fix_direction, to
\* sanitize_pii, to clean_ocr_noise (a text with watermarks, a text with
\* blanks), to split_to_clauses and to calculate_contract_confidence
MaxDirectionTokens == 4

MaxMaskTokens == 3

MaxWatermarkTokens == 3

MaxSpacingTokens == 5

MaxClauseTokens == 3

MaxConfidenceTokens == 3
MaxNumberedTokens == 4

\* most pages the OCR service returns for one batch
MaxPagesReturned == 3

---------------------------------------------------------------------------
(* Python values *)

PyNone == [t |-> "none", n |-> 0, s |-> <<>>]
PyInt(k) == [t |-> "int", n |-> k, s |-> <<>>]
PyBool(b) == [t |-> "bool", n |-> IF b THEN 1 ELSE 0, s |-> <<>>]
\* a finite float, given in halves: PyFloatHalves(5) is 2.5
PyFloatHalves(h) == [t |-> "float", n |-> h, s |-> <<>>]
\* float('inf'): json.loads reads Infinity and 1e999 as this
PyInf == [t |-> "inf", n |-> 0, s |-> <<>>]
PyNan == [t |-> "nan", n |-> 0, s |-> <<>>]
PyStr(chars) == [t |-> "str", n |-> 0, s |-> chars]

\* bool(v)
Truthy(v) ==
    CASE v.t = "none" -> FALSE
      [] v.t = "str" -> Len(v.s) > 0
      [] v.t \in {"int", "bool", "float"} -> v.n # 0
      [] OTHER -> TRUE

\* {}
EmptyDict == [k \in {} |-> TRUE]

\* d.get(k, default)
DictGet(d, k, default) == IF k \in DOMAIN d THEN d[k] ELSE default

\* d[k] = v
DictSet(d, k, v) == [j \in DOMAIN d \cup {k} |-> IF j = k THEN v ELSE d[j]]

Max(a, b) == IF a >= b THEN a ELSE b

AsciiDigits == <<"0", "1", "2", "3", "4", "5", "6", "7", "8", "9">>

DigitValue(c) == (CHOOSE i \in 1..Len(AsciiDigits) : AsciiDigits[i] = c) - 1

IsAsciiDigit(c) == \E i \in 1..Len(AsciiDigits) : AsciiDigits[i] = c

RECURSIVE DigitsToNat(_)
DigitsToNat(chars) ==
    IF chars = <<>> THEN 0
    ELSE 10 * DigitsToNat(SubSeq(chars, 1, Len(chars) - 1))
         + DigitValue(chars[Len(chars)])

\* the strings int() reads: an optional sign, then decimal digits
IsIntLiteral(chars) ==
    LET body == IF chars # <<>> /\ chars[1] \in {"-", "+"} THEN Tail(chars) ELSE chars
    IN  body # <<>> /\ \A i \in 1..Len(body) : IsAsciiDigit(body[i])

IntLiteralValue(chars) ==
    IF chars[1] = "-" THEN 0 - DigitsToNat(Tail(chars))
    ELSE IF chars[1] = "+" THEN DigitsToNat(Tail(chars))
    ELSE DigitsToNat(chars)

\* int(v) of Python: the value, or the exception it raises
PyIntOf(v) ==
    CASE v.t \in {"int", "bool"} -> [exc |-> "", n |-> v.n]
      [] v.t = "float" ->
            [exc |-> "",
             n |-> IF v.n >= 0 THEN v.n \div 2 ELSE 0 - ((0 - v.n) \div 2)]
      [] v.t = "inf" -> [exc |-> "OverflowError", n |-> 0]
      [] v.t = "nan" -> [exc |-> "ValueError", n |-> 0]
      [] v.t = "str" ->
            IF IsIntLiteral(v.s) THEN [exc |-> "", n |-> IntLiteralValue(v.s)]
            ELSE [exc |-> "ValueError", n |-> 0]
      [] OTHER -> [exc |-> "TypeError", n |-> 0]

LowerLetters == <<"a", "b", "c", "d", "e", "f", "g", "h", "i", "j", "k", "l", "m",
                  "n", "o", "p", "q", "r", "s", "t", "u", "v", "w", "x", "y", "z">>
UpperLetters == <<"A", "B", "C", "D", "E", "F", "G", "H", "I", "J", "K", "L", "M",
                  "N", "O", "P", "Q", "R", "S", "T", "U", "V", "W", "X", "Y", "Z">>

\* str.lower() of one character
CharLower(c) ==
    IF \E i \in 1..Len(UpperLetters) : UpperLetters[i] = c
    THEN LowerLetters[CHOOSE i \in 1..Len(UpperLetters) : UpperLetters[i] = c]
    ELSE c

\* str.upper() of one character
CharUpper(c) ==
    IF \E i \in 1..Len(LowerLetters) : LowerLetters[i] = c
    THEN UpperLetters[CHOOSE i \in 1..Len(LowerLetters) : LowerLetters[i] = c]
    ELSE c

---------------------------------------------------------------------------
(* ai-analyzer.py: recalculate_scores *)

\* the points every category starts with
CategoryMax == 20

\* the keys of category_scores, in the dict's order
Categories == <<"financial_terms", "tenant_rights", "termination_clauses",
                "liability_repairs", "legal_compliance">>

CategorySet == {Categories[i] : i \in 1..Len(Categories)}

\* prefix_map: rule prefix -> category
prefix_map == [p \in {"F", "T", "E", "L", "C"} |->
                 CASE p = "F" -> "financial_terms"
                   [] p = "T" -> "tenant_rights"
                   [] p = "E" -> "termination_clauses"
                   [] p = "L" -> "liability_repairs"
                   [] p = "C" -> "legal_compliance"]

\* the score_breakdown of the not-a-contract branch
ZeroBreakdown == [c \in CategorySet |-> [score |-> 0]]

\* not analysis_json.get('is_contract', True)
IsNotContract(analysis) == ~Truthy(DictGet(analysis, "is_contract", PyBool(TRUE)))

\* mutant: the not-a-contract branch also empties the issues list
NonContractResultClearIssues(analysis) ==
    DictSet(DictSet(DictSet(analysis, "overall_risk_score", 0),
                    "score_breakdown", ZeroBreakdown),
            "issues", <<>>)

\* the not-a-contract branch: the dict it returns
NonContractResult(analysis) ==
    DictSet(DictSet(analysis, "overall_risk_score", 0),
            "score_breakdown", ZeroBreakdown)

\* category_scores before the loop
StartScores == [c \in CategorySet |-> CategoryMax]

\* category_penalties_sum before the loop
StartPenalties == [c \in CategorySet |-> 0]

\* penalty = int(issue.get('penalty_points', 0)), ValueError and TypeError
\* caught as 0; any other exception leaves the call
ParsePenalty(issue) ==
    LET r == PyIntOf(DictGet(issue, "penalty_points", PyInt(0)))
    IN  IF r.exc \in {"ValueError", "TypeError"} THEN [exc |-> "", n |-> 0] ELSE r

\* issue.get('rule_id', '')
RuleIdOf(issue) == DictGet(issue, "rule_id", PyStr(<<>>))

\* len(rule_id) raises TypeError for a value that has no length
HasLen(v) == v.t = "str"

\* mutant: penalty >= 0 in place of penalty > 0
AcceptTestNonNegative(rule_id, penalty) ==
    IF ~Truthy(rule_id) THEN [exc |-> "", ok |-> FALSE]
    ELSE IF ~HasLen(rule_id) THEN [exc |-> "TypeError", ok |-> FALSE]
    ELSE [exc |-> "", ok |-> Len(rule_id.s) > 0 /\ penalty >= 0]

\* rule_id and len(rule_id) > 0 and penalty > 0; Python evaluates left to
\* right and stops at the first falsy operand
AcceptTest(rule_id, penalty) ==
    IF ~Truthy(rule_id) THEN [exc |-> "", ok |-> FALSE]
    ELSE IF ~HasLen(rule_id) THEN [exc |-> "TypeError", ok |-> FALSE]
    ELSE [exc |-> "", ok |-> Len(rule_id.s) > 0 /\ penalty > 0]

\* mutant: the prefix is not uppercased
PrefixOfNoUpper(rule_id) == rule_id.s[1]

\* prefix = rule_id[0].upper()
PrefixOf(rule_id) == CharUpper(rule_id.s[1])

\* mutant: no floor at 0
DeductNoFloor(score, penalty) == score - penalty

\* mutant: a penalty larger than what is left is skipped instead of floored
DeductIfAffordable(score, penalty) ==
    IF penalty > score THEN score ELSE score - penalty

\* max(0, category_scores[category] - penalty)
Deduct(score, penalty) == Max(0, score - penalty)

\* mutant: the append is inside the test of prefix in prefix_map
AcceptIssueMappedOnly(st, issue, rule_id, penalty) ==
    LET prefix == CharUpper(rule_id.s[1])
    IN  IF prefix \in DOMAIN prefix_map
        THEN LET category == prefix_map[prefix]
             IN  [st EXCEPT
                    !.category_scores[category] = Max(0, @ - penalty),
                    !.category_penalties_sum[category] = @ + penalty,
                    !.filtered_issues = Append(@, issue)]
        ELSE st

\* the if-block of an accepted issue: the deduction when the prefix is in
\* prefix_map, and the append to filtered_issues in every case
AcceptIssue(st, issue, rule_id, penalty) ==
    LET prefix == PrefixOf(rule_id)
        scored ==
            IF prefix \in DOMAIN prefix_map
            THEN LET category == prefix_map[prefix]
                 IN  [st EXCEPT
                        !.category_scores[category] = Deduct(@, penalty),
                        !.category_penalties_sum[category] = @ + penalty]
            ELSE st
    IN  [scored EXCEPT !.filtered_issues = Append(@, issue)]

\* one iteration of the for loop over the issues.
\* st holds the locals; st.exc names an exception that leaves the call.
LoopBody(st, issue) ==
    LET rule_id == RuleIdOf(issue)
        parsed == ParsePenalty(issue)
        test == AcceptTest(rule_id, parsed.n)
    IN  IF parsed.exc # "" THEN [st EXCEPT !.exc = parsed.exc]
        ELSE IF test.exc # "" THEN [st EXCEPT !.exc = test.exc]
        ELSE IF test.ok THEN AcceptIssue(st, issue, rule_id, parsed.n)
        ELSE st

\* sum(category_scores.values())
RECURSIVE SumScores(_, _)
SumScores(scores, i) ==
    IF i > Len(Categories) THEN 0
    ELSE scores[Categories[i]] + SumScores(scores, i + 1)

\* mutant: the last category is left out of the sum
OverallScoreSkipLast(scores) ==
    SumScores(scores, 1) - scores[Categories[Len(Categories)]]

OverallScore(scores) == SumScores(scores, 1)

\* score_breakdown[cat] = {"score", "penalties", "max": 20}
BuildBreakdown(scores, penalties) ==
    [c \in CategorySet |->
        [score |-> scores[c], penalties |-> penalties[c], max |-> CategoryMax]]

\* mutant: an overall_risk_score already in the dict is kept (setdefault)
ContractResultKeepOverall(analysis, st) ==
    LET d == DictSet(DictSet(analysis, "issues", st.filtered_issues),
                     "score_breakdown",
                     BuildBreakdown(st.category_scores, st.category_penalties_sum))
    IN  IF "overall_risk_score" \in DOMAIN d THEN d
        ELSE DictSet(d, "overall_risk_score", SumScores(st.category_scores, 1))

\* a variant of ContractResult: the issues list of the result is left empty
ContractResultDropIssues(analysis, st) ==
    DictSet(DictSet(DictSet(analysis, "issues", <<>>),
                    "score_breakdown",
                    BuildBreakdown(st.category_scores, st.category_penalties_sum)),
            "overall_risk_score", OverallScore(st.category_scores))

\* the three assignments that end the contract branch
ContractResult(analysis, st) ==
    DictSet(DictSet(DictSet(analysis, "issues", st.filtered_issues),
                    "score_breakdown",
                    BuildBreakdown(st.category_scores, st.category_penalties_sum)),
            "overall_risk_score", OverallScore(st.category_scores))

StartLocals ==
    [category_scores |-> StartScores,
     category_penalties_sum |-> StartPenalties,
     filtered_issues |-> <<>>,
     exc |-> ""]

\* the loop over issues[i..], stopping at the first exception
RECURSIVE RunLoop(_, _, _)
RunLoop(st, issues, i) ==
    IF i > Len(issues) \/ st.exc # "" THEN st
    ELSE RunLoop(LoopBody(st, issues[i]), issues, i + 1)

\* recalculate_scores as a function of its argument:
\* [exc |-> the exception raised or "", result |-> the dict returned]
RecalculateScores(analysis) ==
    IF IsNotContract(analysis)
    THEN [exc |-> "", result |-> NonContractResult(analysis)]
    ELSE LET st == RunLoop(StartLocals, DictGet(analysis, "issues", <<>>), 1)
         IN  IF st.exc # "" THEN [exc |-> st.exc, result |-> analysis]
             ELSE [exc |-> "", result |-> ContractResult(analysis, st)]

---------------------------------------------------------------------------
(* The calls of recalculate_scores the model makes *)

IssueRP(rule_id, penalty_points) ==
    [rule_id |-> rule_id, penalty_points |-> penalty_points]

\* the issues an analysis may hold: every kind of rule_id and penalty_points
\* the reasoning service's JSON can carry
IssueSet ==
    { IssueRP(PyStr(<<"F", "1">>), PyInt(10)),
      IssueRP(PyStr(<<"f", "4">>), PyInt(15)),
      IssueRP(PyStr(<<"T", "3">>), PyInt(25)),
      IssueRP(PyStr(<<"E", "2">>), PyFloatHalves(5)),
      IssueRP(PyStr(<<"L", "5">>), PyStr(<<"7">>)),
      IssueRP(PyStr(<<"C", "2">>), PyInt(0 - 3)),
      IssueRP(PyStr(<<"C", "3">>), PyFloatHalves(1)),
      IssueRP(PyStr(<<"Z", "9">>), PyInt(5)),
      IssueRP(PyStr(<<>>), PyInt(5)),
      IssueRP(PyNone, PyInt(5)),
      [penalty_points |-> PyInt(0)],
      [rule_id |-> PyStr(<<"T", "1">>)],
      IssueRP(PyStr(<<"F", "2">>), PyNone),
      IssueRP(PyStr(<<"E", "1">>), PyStr(<<"h", "i", "g", "h">>)),
      IssueRP(PyStr(<<"L", "1">>), PyNan),
      IssueRP(PyStr(<<"F", "3">>), PyInf),
      IssueRP(PyInt(7), PyInt(5)) }

IssueLists == UNION { [1..n -> IssueSet] : n \in 0..MaxIssues }

\* the scores the reasoning service may have put in its answer: those of
\* create_fallback_response, or none
UpstreamScores ==
    { [overall_risk_score |-> 50,
       score_breakdown |-> [c \in CategorySet |-> [score |-> 10]]] }

\* str(e) of the exceptions parse_json_response leaves with: no braces in
\* the answer, or braces that json.loads rejects
ParseErrors == {"No JSON found", "Expecting value: line 1 column 6 (char 5)"}

\* the dict the handler takes in place of the answer it could not parse
create_fallback_response(error_message) ==
    [is_contract |-> PyBool(TRUE),
     overall_risk_score |-> 50,
     score_breakdown |-> [c \in CategorySet |-> [score |-> 10]],
     summary |-> "summary of a format error",
     issues |-> <<>>,
     parse_error |-> error_message]

\* analysis after the except branch of the handler
FallbackResponses == { create_fallback_response(e) : e \in ParseErrors }

\* the dicts recalculate_scores is called with: the answer as parsed, or the
\* fallback
AnalysisInputs ==
    LET base == { [issues |-> l, summary |-> "summary"] : l \in IssueLists }
        flagged == base
                   \cup { DictSet(b, "is_contract", PyBool(TRUE)) : b \in base }
                   \cup { DictSet(b, "is_contract", PyBool(FALSE)) : b \in base }
    IN  flagged
        \cup { DictSet(DictSet(f, "overall_risk_score", u.overall_risk_score),
                       "score_breakdown", u.score_breakdown) :
               f \in flagged, u \in UpstreamScores }
        \cup FallbackResponses

Locals ==
    [category_scores |-> category_scores,
     category_penalties_sum |-> category_penalties_sum,
     filtered_issues |-> filtered_issues,
     exc |-> exc]

ScoreIdle ==
    /\ analysis_in = EmptyDict
    /\ analysis_json = EmptyDict
    /\ pc = "idle"
    /\ idx = 0
    /\ category_scores = StartPenalties
    /\ category_penalties_sum = StartPenalties
    /\ filtered_issues = <<>>
    /\ exc = ""

OcrIdle ==
    /\ opc = "idle"
    /\ start_page = 0
    /\ response_status = 0
    /\ status = ""
    /\ retries = 0
    /\ pages_returned = 0
    /\ all_text = <<>>
    /\ total_pages = 0
    /\ most_pages = 0
    /\ ocr_result = EmptyDict

ShieldIdle ==
    /\ event = EmptyDict
    /\ text = <<>>
    /\ pii_found = <<>>
    /\ pii_i = 0
    /\ spc = "idle"
    /\ result = EmptyDict

HelperIdle ==
    /\ fn = "idle"
    /\ arg = <<>>
    /\ hpc = "idle"
    /\ clauses = <<>>
    /\ final_clauses = <<>>
    /\ ret = <<>>

Init ==
    /\ analysis_in \in AnalysisInputs
    /\ analysis_json = analysis_in
    /\ pc = "call"
    /\ idx = 0
    /\ category_scores = StartPenalties
    /\ category_penalties_sum = StartPenalties
    /\ filtered_issues = <<>>
    /\ exc = ""
    /\ ShieldIdle
    /\ HelperIdle
    /\ OcrIdle

\* lines 298-307
ReturnNotContract ==
    /\ pc = "call"
    /\ IsNotContract(analysis_json)
    /\ analysis_json' = NonContractResult(analysis_json)
    /\ pc' = "done"
    /\ UNCHANGED <<analysis_in, idx, category_scores, category_penalties_sum,
                   filtered_issues, exc, shieldVars, helperVars, ocrVars>>

\* lines 310-328
BeginContract ==
    /\ pc = "call"
    /\ ~IsNotContract(analysis_json)
    /\ category_scores' = StartLocals.category_scores
    /\ category_penalties_sum' = StartLocals.category_penalties_sum
    /\ filtered_issues' = StartLocals.filtered_issues
    /\ idx' = 1
    /\ pc' = "loop"
    /\ UNCHANGED <<analysis_in, analysis_json, exc, shieldVars, helperVars, ocrVars>>

\* lines 330-345, one issue
ProcessIssue ==
    /\ pc = "loop"
    /\ idx <= Len(DictGet(analysis_json, "issues", <<>>))
    /\ LET st == LoopBody(Locals, DictGet(analysis_json, "issues", <<>>)[idx])
       IN  /\ category_scores' = st.category_scores
           /\ category_penalties_sum' = st.category_penalties_sum
           /\ filtered_issues' = st.filtered_issues
           /\ exc' = st.exc
           /\ pc' = IF st.exc # "" THEN "raised" ELSE "loop"
           /\ idx' = IF st.exc # "" THEN idx ELSE idx + 1
    /\ UNCHANGED <<analysis_in, analysis_json, shieldVars, helperVars, ocrVars>>

\* lines 347-371
FinishContract ==
    /\ pc = "loop"
    /\ idx > Len(DictGet(analysis_json, "issues", <<>>))
    /\ analysis_json' = ContractResult(analysis_json, Locals)
    /\ pc' = "done"
    /\ UNCHANGED <<analysis_in, idx, category_scores, category_penalties_sum,
                   filtered_issues, exc, shieldVars, helperVars, ocrVars>>

Next ==
    \/ ReturnNotContract
    \/ BeginContract
    \/ ProcessIssue
    \/ FinishContract

Spec == Init /\ [][Next]_vars

---------------------------------------------------------------------------
(* Claims about recalculate_scores *)

InputIssues == DictGet(analysis_in, "issues", <<>>)

Returned == pc = "done"

ReturnedContract == pc = "done" /\ ~IsNotContract(analysis_in)

OutScore(c) == analysis_json.score_breakdown[c].score

OutOverall == analysis_json.overall_risk_score

\* the letter of each category, as the claims name it
LetterOf ==
    [c \in CategorySet |->
        CASE c = "financial_terms" -> "F"
          [] c = "tenant_rights" -> "T"
          [] c = "termination_clauses" -> "E"
          [] c = "liability_repairs" -> "L"
          [] c = "legal_compliance" -> "C"]

\* an issue the claims call accepted: a non-empty rule identifier and a
\* parsed penalty strictly greater than 0
ClaimAccepted(issue) ==
    /\ RuleIdOf(issue).t = "str"
    /\ Len(RuleIdOf(issue).s) > 0
    /\ ParsePenalty(issue).n > 0

\* an accepted issue whose first character, uppercased, is letter
ClaimMapsTo(issue, letter) ==
    /\ ClaimAccepted(issue)
    /\ RuleIdOf(issue).s[1] \in {letter, CHOOSE l \in {LowerLetters[i] : i \in 1..Len(LowerLetters)} : CharUpper(l) = letter}

ClaimUnmapped(issue) ==
    ClaimAccepted(issue) /\ \A c \in CategorySet : ~ClaimMapsTo(issue, LetterOf[c])

\* P(c): the sum of the parsed penalties of the accepted issues of category c
RECURSIVE ClaimPenaltySum(_, _, _)
ClaimPenaltySum(issues, c, i) ==
    IF i > Len(issues) THEN 0
    ELSE (IF ClaimMapsTo(issues[i], LetterOf[c]) THEN ParsePenalty(issues[i]).n ELSE 0)
         + ClaimPenaltySum(issues, c, i + 1)

\* C1: in every returned result each of the five category scores is an
\* integer in [0,20] and overall_risk_score is in [0,100]
C1_ScoresInRange ==
    Returned =>
        /\ \A c \in CategorySet : OutScore(c) \in 0..20
        /\ OutOverall \in 0..100

\* C1 witness: a contract whose penalties in one category exceed 20
C1_Witness ==
    /\ ReturnedContract
    /\ \E c \in CategorySet :
          /\ analysis_json.score_breakdown[c].penalties > 20
          /\ OutScore(c) = 0
    /\ OutOverall = 80

\* C2: with is_contract false the result has overall 0 and five scores 0, the
\* issues are not processed, and every other field is as received
C2_NonContractShortCircuit ==
    IsNotContract(analysis_in) =>
        /\ pc \in {"call", "done"}
        /\ idx = 0 /\ filtered_issues = <<>>
        /\ pc = "done" =>
              /\ OutOverall = 0
              /\ \A c \in CategorySet : OutScore(c) = 0
              /\ DOMAIN analysis_json =
                    DOMAIN analysis_in \cup {"overall_risk_score", "score_breakdown"}
              /\ \A k \in DOMAIN analysis_in \ {"overall_risk_score", "score_breakdown"} :
                    analysis_json[k] = analysis_in[k]

\* C2 witness: a not-a-contract result returned with issues that a contract
\* would have scored, dropped and failed on
C2_Witness ==
    /\ pc = "done"
    /\ IsNotContract(analysis_in)
    /\ Len(analysis_json.issues) = 2
    /\ \E i \in 1..2 : ClaimMapsTo(analysis_json.issues[i], "F")
    /\ \E i \in 1..2 : DictGet(analysis_json.issues[i], "penalty_points", PyNone) = PyInf

C4_OverallIsSum ==
    Returned =>
        OutOverall = OutScore("financial_terms") + OutScore("tenant_rights")
                     + OutScore("termination_clauses") + OutScore("liability_repairs")
                     + OutScore("legal_compliance")

\* C4 witness: a contract with deductions in two categories, the last one
\* among them
C4_Witness ==
    /\ ReturnedContract
    /\ OutScore("liability_repairs") = 13
    /\ OutScore("termination_clauses") = 18
    /\ OutOverall = 91

\* C5: the returned issues of a contract are the input issues that are
\* accepted, in input order and unmodified
C5_FilteredSubsequence ==
    ReturnedContract => analysis_json.issues = SelectSeq(InputIssues, ClaimAccepted)

\* C5 witness: one issue kept and one dropped
C5_Witness ==
    /\ ReturnedContract
    /\ Len(InputIssues) = 2
    /\ Len(analysis_json.issues) = 1
    /\ analysis_json.issues[1] = InputIssues[2]
    /\ ParsePenalty(InputIssues[1]).n = 0
    /\ Len(RuleIdOf(InputIssues[1]).s) > 0

\* C6: an accepted issue whose prefix is none of F, T, E, L, C is appended to
\* the output list and changes no score and no penalty sum; an input of only
\* such issues and dropped issues gives five scores of 20 and overall 100
C6_UnmappedStep ==
    (/\ pc = "loop" /\ pc' = "loop" /\ idx' = idx + 1
     /\ ClaimUnmapped(InputIssues[idx]))
    => /\ category_scores' = category_scores
       /\ category_penalties_sum' = category_penalties_sum
       /\ filtered_issues' = Append(filtered_issues, InputIssues[idx])

C6_OnlyUnmappedOrDropped ==
    \A i \in 1..Len(InputIssues) :
        ClaimUnmapped(InputIssues[i]) \/ ~ClaimAccepted(InputIssues[i])

C6_UnmappedFinal ==
    (ReturnedContract /\ C6_OnlyUnmappedOrDropped) =>
        /\ \A c \in CategorySet :
              /\ OutScore(c) = 20
              /\ analysis_json.score_breakdown[c].penalties = 0
        /\ OutOverall = 100
        /\ analysis_json.issues = SelectSeq(InputIssues, ClaimUnmapped)

C6_UnmappedKeptNoDeduction == [][C6_UnmappedStep]_vars /\ []C6_UnmappedFinal

\* C6 witness: the input [{rule_id: "", 5}, {rule_id: "Z9", 5}] returned
C6_Witness ==
    /\ ReturnedContract
    /\ Len(InputIssues) = 2
    /\ RuleIdOf(InputIssues[1]) = PyStr(<<>>)
    /\ RuleIdOf(InputIssues[2]) = PyStr(<<"Z", "9">>)
    /\ analysis_json.issues = <<InputIssues[2]>>
    /\ OutOverall = 100

\* C7: recalculate_scores never raises, whatever the penalty fields of the
\* issues hold (missing, null, non-numeric, negative, non-integer, infinite),
\* their rule identifiers being strings, null or missing
C7_NeverRaises ==
    (\A i \in 1..Len(InputIssues) : RuleIdOf(InputIssues[i]).t \in {"str", "none"})
    => (pc # "raised" /\ exc = "")

\* analysis without the scores computed upstream
WithoutUpstream(analysis) ==
    [k \in DOMAIN analysis \ {"overall_risk_score", "score_breakdown"} |-> analysis[k]]

\* analysis with the scores computed upstream replaced by u
WithUpstream(analysis, u) ==
    DictSet(DictSet(WithoutUpstream(analysis), "overall_risk_score", u.overall_risk_score),
            "score_breakdown", u.score_breakdown)

UpstreamAlternatives ==
    UpstreamScores
    \cup { [overall_risk_score |-> 7,
            score_breakdown |->
                [c \in CategorySet |-> [score |-> 3, penalties |-> 1, max |-> 20]]] }

\* C8: the returned scores do not depend on the scores in the input: an input
\* that differs only in overall_risk_score and score_breakdown returns the
\* same overall_risk_score and score_breakdown
C8_UpstreamIndependence ==
    Returned =>
        /\ \A u \in UpstreamAlternatives :
              LET r == RecalculateScores(WithUpstream(analysis_in, u))
              IN  /\ r.exc = ""
                  /\ r.result.overall_risk_score = OutOverall
                  /\ r.result.score_breakdown = analysis_json.score_breakdown
        /\ LET r == RecalculateScores(WithoutUpstream(analysis_in))
           IN  /\ r.exc = ""
               /\ r.result.overall_risk_score = OutOverall
               /\ r.result.score_breakdown = analysis_json.score_breakdown

\* C8 witness: an input that carried overall 50 and category scores 10 and
\* is returned with overall 80
C8_Witness ==
    /\ ReturnedContract
    /\ "overall_risk_score" \in DOMAIN analysis_in
    /\ analysis_in.overall_risk_score = 50
    /\ analysis_in.score_breakdown["financial_terms"].score = 10
    /\ OutOverall = 80

IndexPermutations(n) ==
    { f \in [1..n -> 1..n] : \A i, j \in 1..n : f[i] = f[j] => i = j }

Permuted(seq, f) == [i \in 1..Len(seq) |-> seq[f[i]]]

\* C9: every permutation of the issues list gives the same five scores, the
\* same penalty sums and the same overall score
C9_PermutationInvariance ==
    Returned =>
        \A f \in IndexPermutations(Len(InputIssues)) :
            LET r == RecalculateScores(DictSet(analysis_in, "issues",
                                               Permuted(InputIssues, f)))
            IN  /\ r.exc = ""
                /\ r.result.overall_risk_score = OutOverall
                /\ r.result.score_breakdown = analysis_json.score_breakdown

\* C9 witness: two different issues of one category whose penalties together
\* exceed 20, so that the floor is reached by the second one in either order
C9_Witness ==
    /\ ReturnedContract
    /\ Len(InputIssues) = 2
    /\ InputIssues[1] # InputIssues[2]
    /\ ClaimMapsTo(InputIssues[1], "F") /\ ClaimMapsTo(InputIssues[2], "F")
    /\ analysis_json.score_breakdown["financial_terms"].penalties = 25
    /\ OutScore("financial_terms") = 0

---------------------------------------------------------------------------
(* Characters and Python's re                                              *)
(*                                                                         *)
(* A character is a one-character string; a Hebrew letter is written       *)
(* "he_<name>" after its Unicode name (HEBREW LETTER HET is "he_het").     *)

AsciiDigitSet == {AsciiDigits[i] : i \in 1..Len(AsciiDigits)}

AsciiLetterSet ==
    {LowerLetters[i] : i \in 1..Len(LowerLetters)}
    \cup {UpperLetters[i] : i \in 1..Len(UpperLetters)}

\* U+05D0..U+05EA, the letters of the Hebrew block
HebrewLetterSet ==
    {"he_alef", "he_bet", "he_gimel", "he_dalet", "he_he", "he_vav", "he_zayin",
     "he_het", "he_tet", "he_yod", "he_final_kaf", "he_kaf", "he_lamed",
     "he_final_mem", "he_mem", "he_final_nun", "he_nun", "he_samekh", "he_ayin",
     "he_final_pe", "he_pe", "he_final_tsadi", "he_tsadi", "he_qof", "he_resh",
     "he_shin", "he_tav"}

\* U+2000..U+200F, written "u2000".."u200f"
HiddenDirectionalSet ==
    {"u2000", "u2001", "u2002", "u2003", "u2004", "u2005", "u2006", "u2007",
     "u2008", "u2009", "u200a", "u200b", "u200c", "u200d", "u200e", "u200f"}

\* \s: the ASCII whitespace, U+00A0 and, of the characters above, the spaces
\* U+2000..U+200A
WhitespaceSet ==
    {" ", "\t", "\n", "\r", "no_break_space"}
    \cup (HiddenDirectionalSet \ {"u200b", "u200c", "u200d", "u200e", "u200f"})

\* \d
DigitSet == AsciiDigitSet

\* \w
WordCharSet == AsciiLetterSet \cup DigitSet \cup HebrewLetterSet \cup {"_"}

\* A pattern is a sequence of items, matched left to right with backtracking:
\*   a class item: one character set (negated when neg), repeated min..max
\*   times (unb: no upper limit), greedy;
\*   a zero-width item: \b, a lookbehind of one character, the start of the
\*   string, or a lookahead (negated when neg) of alternative patterns.
Rep(set, min, max) ==
    [k |-> "class", set |-> set, neg |-> FALSE, min |-> min, max |-> max, unb |-> FALSE]

AtLeast(set, min) ==
    [k |-> "class", set |-> set, neg |-> FALSE, min |-> min, max |-> min, unb |-> TRUE]

\* any number of characters outside set
AnyNumberExcept(set) ==
    [k |-> "class", set |-> set, neg |-> TRUE, min |-> 0, max |-> 0, unb |-> TRUE]

One(c) == Rep({c}, 1, 1)

WordBoundary ==
    [k |-> "boundary", set |-> {}, neg |-> FALSE, min |-> 0, max |-> 0, unb |-> FALSE]

\* (?<=[set]), and (?<=[^set]) when neg
Behind(set, neg) == [k |-> "behind", set |-> set, neg |-> neg]

\* (?:^|(?<=[set]))
StartOrBehind(set) == [k |-> "start_or_behind", set |-> set, neg |-> FALSE]

\* (?=a1|a2|...), and (?!a1|a2|...) when neg
Ahead(alts, neg) == [k |-> "ahead", alts |-> alts, neg |-> neg]

InItem(c, item) == (c \in item.set) # item.neg

\* \b at position i: exactly one of str[i-1], str[i] is a word character
AtWordBoundary(str, i) ==
    (i > 1 /\ str[i - 1] \in WordCharSet) # (i <= Len(str) /\ str[i] \in WordCharSet)

\* how many characters from position i on a class item can take, n taken
RECURSIVE RunLength(_, _, _, _)
RunLength(str, i, item, n) ==
    IF /\ (item.unb \/ n < item.max)
       /\ i + n <= Len(str)
       /\ InItem(str[i + n], item)
    THEN RunLength(str, i, item, n + 1)
    ELSE n

\* first of the candidate ends that is a match (0: none)
FirstMatch(e, rest) == IF e # 0 THEN e ELSE rest

\* MatchFrom: the position after the match of items k.. of pattern that
\* starts at position i, as the backtracking matcher finds it; 0 if none.
\* TryCount: item k taking n characters, then fewer.
\* ZeroWidth: a zero-width item holds at position i.
\* MatchAnyFrom: the match of the first of the alternatives a.. that matches.
RECURSIVE MatchFrom(_, _, _, _), TryCount(_, _, _, _, _), ZeroWidth(_, _, _),
          MatchAnyFrom(_, _, _, _)
MatchFrom(pattern, str, i, k) ==
    IF k > Len(pattern) THEN i
    ELSE IF pattern[k].k = "class"
         THEN TryCount(pattern, str, i, k, RunLength(str, i, pattern[k], 0))
         ELSE IF ZeroWidth(pattern[k], str, i)
              THEN MatchFrom(pattern, str, i, k + 1)
              ELSE 0

TryCount(pattern, str, i, k, n) ==
    IF n < pattern[k].min THEN 0
    ELSE FirstMatch(MatchFrom(pattern, str, i + n, k + 1),
                    TryCount(pattern, str, i, k, n - 1))

ZeroWidth(item, str, i) ==
    CASE item.k = "boundary" -> AtWordBoundary(str, i)
      [] item.k = "behind" -> i > 1 /\ InItem(str[i - 1], item)
      [] item.k = "start_or_behind" -> i = 1 \/ InItem(str[i - 1], item)
      [] item.k = "ahead" -> (MatchAnyFrom(item.alts, str, i, 1) # 0) # item.neg

MatchAnyFrom(alts, str, i, a) ==
    IF a > Len(alts) THEN 0
    ELSE FirstMatch(MatchFrom(alts[a], str, i, 1), MatchAnyFrom(alts, str, i, a + 1))

\* a pattern with a top-level alternation is the sequence of its alternatives
MatchAny(alts, str, i) == MatchAnyFrom(alts, str, i, 1)

\* pattern.search(str) is not None
Search(pattern, str) == \E i \in 1..Len(str) : MatchFrom(pattern, str, i, 1) # 0

\* pattern.sub(repl, str) from position i on, for a pattern that matches no
\* empty string (true of every pattern of this program)
RECURSIVE SubFrom(_, _, _, _)
SubFrom(pattern, repl, str, i) ==
    IF i > Len(str) THEN <<>>
    ELSE IF MatchFrom(pattern, str, i, 1) # 0
         THEN repl \o SubFrom(pattern, repl, str, MatchFrom(pattern, str, i, 1))
         ELSE <<str[i]>> \o SubFrom(pattern, repl, str, i + 1)

Sub(pattern, repl, str) == SubFrom(pattern, repl, str, 1)

\* word in str
Contains(word, str) ==
    \E i \in 1..(Len(str) - Len(word) + 1) : SubSeq(str, i, i + Len(word) - 1) = word

\* str[::-1]
Reverse(str) == [i \in 1..Len(str) |-> str[Len(str) + 1 - i]]

\* str.strip()
RECURSIVE Strip(_)
Strip(str) ==
    IF str = <<>> THEN str
    ELSE IF str[1] \in WhitespaceSet THEN Strip(Tail(str))
    ELSE IF str[Len(str)] \in WhitespaceSet THEN Strip(SubSeq(str, 1, Len(str) - 1))
    ELSE str

---------------------------------------------------------------------------
(* privacy-shield.py *)

\* [-\s]
SeparatorSet == {"-"} \cup WhitespaceSet

\* PII_PATTERNS, in the dict's order: name, compiled pattern, replacement
PII_PATTERNS ==
    << [name |-> "israeli_id",
        pattern |-> <<WordBoundary, Rep(AsciiDigitSet, 8, 9), WordBoundary>>,
        replacement |-> <<"[", "he_tav", ".", "he_zayin", ".", " ", "he_he",
                          "he_vav", "he_samekh", "he_tav", "he_resh", "]">>],
       [name |-> "credit_card",
        pattern |-> <<WordBoundary, Rep(DigitSet, 4, 4), Rep(SeparatorSet, 0, 1),
                      Rep(DigitSet, 4, 4), Rep(SeparatorSet, 0, 1),
                      Rep(DigitSet, 4, 4), Rep(SeparatorSet, 0, 1),
                      Rep(DigitSet, 4, 4), WordBoundary>>,
        replacement |-> <<"[", "he_kaf", ".", "he_alef", "he_shin", "he_resh",
                          "he_alef", "he_yod", " ", "he_he", "he_vav", "he_samekh",
                          "he_tav", "he_resh", "]">>],
       [name |-> "phone_mobile",
        pattern |-> <<WordBoundary, One("0"), One("5"), Rep(DigitSet, 1, 1),
                      Rep(SeparatorSet, 0, 1), Rep(DigitSet, 3, 3),
                      Rep(SeparatorSet, 0, 1), Rep(DigitSet, 4, 4), WordBoundary>>,
        replacement |-> <<"[", "he_nun", "he_yod", "he_yod", "he_dalet", " ",
                          "he_he", "he_vav", "he_samekh", "he_tav", "he_resh", "]">>],
       [name |-> "email",
        pattern |-> <<AtLeast(AsciiLetterSet \cup AsciiDigitSet
                              \cup {".", "_", "%", "+", "-"}, 1),
                      One("@"),
                      AtLeast(AsciiLetterSet \cup AsciiDigitSet \cup {".", "-"}, 1),
                      One("."),
                      AtLeast(AsciiLetterSet, 2)>>,
        replacement |-> <<"[", "he_alef", "he_yod", "he_mem", "he_yod", "he_yod",
                          "he_lamed", " ", "he_he", "he_vav", "he_samekh", "he_tav",
                          "he_resh", "]">>],
       [name |-> "bank_account",
        pattern |-> <<WordBoundary, Rep(DigitSet, 2, 3), Rep(SeparatorSet, 0, 1),
                      Rep(DigitSet, 3, 3), Rep(SeparatorSet, 0, 1),
                      Rep(DigitSet, 6, 9), WordBoundary>>,
        replacement |-> <<"[", "he_het", "he_shin", "he_bet", "he_vav",
                          "he_final_nun", " ", "he_bet", "he_nun", "he_qof", " ",
                          "he_he", "he_vav", "he_samekh", "he_tav", "he_resh", "]">>] >>

\* a literal under (?i): each character in either case
IgnoreCase(chars) ==
    [i \in 1..Len(chars) |-> Rep({chars[i], CharLower(chars[i]), CharUpper(chars[i])}, 1, 1)]

\* the class of | ~ ^ and the section sign, grave accent, registered sign,
\* copyright sign and trade mark sign
OcrArtifactSet ==
    {"|", "~", "^", "section_sign", "grave_accent", "registered_sign", "copyright_sign",
     "trade_mark_sign"}

\* OCR_NOISE_PATTERNS
OCR_NOISE_PATTERNS ==
    << IgnoreCase(<<"s", "c", "a", "n", "n", "e", "d", " ", "w", "i", "t", "h", " ",
                    "c", "a", "m", "s", "c", "a", "n", "n", "e", "r">>)
         \o <<AnyNumberExcept({"\n"})>>,
       IgnoreCase(<<"w", "w", "w", ".", "c", "a", "m", "s", "c", "a", "n", "n", "e",
                    "r", ".", "c", "o", "m">>),
       <<Rep(HiddenDirectionalSet, 1, 1)>>,
       <<Rep(OcrArtifactSet, 1, 1)>>,
       <<AtLeast({"_"}, 3)>> >>

KEYWORDS_NORMAL ==
    << <<"he_het", "he_vav", "he_zayin", "he_he">>,
       <<"he_he", "he_samekh", "he_kaf", "he_final_mem">>,
       <<"he_shin", "he_kaf", "he_yod", "he_resh", "he_vav", "he_tav">>,
       <<"he_mem", "he_shin", "he_kaf", "he_yod", "he_resh">>,
       <<"he_shin", "he_vav", "he_kaf", "he_resh">>,
       <<"he_dalet", "he_yod", "he_resh", "he_he">> >>

KEYWORDS_REVERSED ==
    << <<"he_he", "he_zayin", "he_vav", "he_het">>,
       <<"he_final_mem", "he_kaf", "he_samekh", "he_he">>,
       <<"he_tav", "he_vav", "he_resh", "he_yod", "he_kaf", "he_shin">>,
       <<"he_resh", "he_yod", "he_kaf", "he_shin", "he_mem">>,
       <<"he_resh", "he_kaf", "he_vav", "he_shin">>,
       <<"he_he", "he_resh", "he_yod", "he_dalet">> >>

\* CONTRACT_KEYWORDS: keyword, weight
CONTRACT_KEYWORDS ==
    << [keyword |->
          <<"he_het", "he_vav", "he_zayin", "he_he", " ", "he_shin",
            "he_kaf", "he_yod", "he_resh", "he_vav", "he_tav">>,
        weight |-> 20],
       [keyword |->
          <<"he_he", "he_samekh", "he_kaf", "he_final_mem", " ", "he_shin",
            "he_kaf", "he_yod", "he_resh", "he_vav", "he_tav">>,
        weight |-> 20],
       [keyword |->
          <<"he_he", "he_mem", "he_shin", "he_kaf", "he_yod", "he_resh">>,
        weight |-> 10],
       [keyword |->
          <<"he_mem", "he_shin", "he_gimel", "he_yod", "he_resh">>,
        weight |-> 10],
       [keyword |->
          <<"he_bet", "he_ayin", "he_lamed", " ", "he_he", "he_dalet",
            "he_yod", "he_resh", "he_he">>,
        weight |-> 10],
       [keyword |->
          <<"he_he", "he_shin", "he_vav", "he_kaf", "he_resh">>,
        weight |-> 10],
       [keyword |->
          <<"he_he", "he_shin", "he_vav", "he_bet", "he_resh">>,
        weight |-> 10],
       [keyword |->
          <<"he_dalet", "he_mem", "he_yod", " ", "he_shin", "he_kaf",
            "he_yod", "he_resh", "he_vav", "he_tav">>,
        weight |-> 15],
       [keyword |->
          <<"he_tav", "he_shin", "he_lamed", "he_vav", "he_final_mem", " ",
            "he_het", "he_vav", "he_dalet", "he_shin", "he_yod">>,
        weight |-> 10],
       [keyword |->
          <<"he_tav", "he_qof", "he_vav", "he_pe", "he_tav", " ", "he_he",
            "he_shin", "he_kaf", "he_yod", "he_resh", "he_vav", "he_tav">>,
        weight |-> 10],
       [keyword |->
          <<"he_tav", "he_qof", "he_vav", "he_pe", "he_tav", " ", "he_he",
            "he_alef", "he_vav", "he_pe", "he_tsadi", "he_yod", "he_he">>,
        weight |-> 5],
       [keyword |->
          <<"he_pe", "he_yod", "he_nun", "he_vav", "he_yod">>,
        weight |-> 5],
       [keyword |->
          <<"he_ayin", "he_resh", "he_bet", "he_vav", "he_tav">>,
        weight |-> 5],
       [keyword |->
          <<"he_tsadi", "'", "he_qof", " ", "he_bet", "he_yod", "he_tet",
            "he_het", "he_vav", "he_final_nun">>,
        weight |-> 5],
       [keyword |->
          <<"he_bet", "he_lamed", "he_tav", "he_yod", " ", "he_mem",
            "he_vav", "he_gimel", "he_nun", "he_tav">>,
        weight |-> 10] >>

SECTION_HEADERS ==
    << <<"he_mem", "he_bet", "he_vav", "he_alef">>,
       <<"he_he", "he_vav", "he_alef", "he_yod", "he_lamed">>,
       <<"he_lamed", "he_pe", "he_yod", "he_kaf", "he_final_kaf">>,
       <<"he_tav", "he_qof", "he_vav", "he_pe", "he_tav", " ", "he_he",
         "he_shin", "he_kaf", "he_yod", "he_resh", "he_vav", "he_tav">>,
       <<"he_tav", "he_qof", "he_vav", "he_pe", "he_tav", " ", "he_he",
         "he_alef", "he_vav", "he_pe", "he_tsadi", "he_yod", "he_he">>,
       <<"he_he", "he_alef", "he_resh", "he_kaf", "he_tav", " ", "he_he",
         "he_het", "he_vav", "he_zayin", "he_he">>,
       <<"he_dalet", "he_mem", "he_yod", " ", "he_he", "he_shin", "he_kaf",
         "he_yod", "he_resh", "he_vav", "he_tav">>,
       <<"he_dalet", "he_mem", "he_yod", " ", "he_shin", "he_kaf", "he_yod",
         "he_resh", "he_vav", "he_tav">>,
       <<"he_tav", "he_shin", "he_lamed", "he_vav", "he_mem", "he_yod",
         "he_final_mem">>,
       <<"he_mem", "he_yod", "he_samekh", "he_yod", "he_final_mem", ",", " ",
         "he_alef", "he_gimel", "he_resh", "he_vav", "he_tav", " ", "he_vav",
         "he_tav", "he_shin", "he_lamed", "he_vav", "he_mem", "he_yod",
         "he_final_mem">>,
       <<"he_mem", "he_yod", "he_samekh", "he_yod", "he_final_mem", " ",
         "he_vav", "he_tav", "he_shin", "he_lamed", "he_vav", "he_mem",
         "he_yod", "he_final_mem">>,
       <<"he_he", "he_shin", "he_yod", "he_mem", "he_vav", "he_shin", " ",
         "he_vav", "he_he", "he_het", "he_zayin", "he_qof", "he_he">>,
       <<"he_he", "he_shin", "he_yod", "he_mem", "he_vav", "he_shin", " ",
         "he_bet", "he_mem", "he_vav", "he_shin", "he_kaf", "he_resh">>,
       <<"he_he", "he_het", "he_zayin", "he_qof", "he_tav", " ", "he_he",
         "he_mem", "he_vav", "he_shin", "he_kaf", "he_resh">>,
       <<"he_alef", "he_het", "he_resh", "he_yod", "he_vav", "he_tav", " ",
         "he_lamed", "he_nun", "he_zayin", "he_qof">>,
       <<"he_alef", "he_het", "he_resh", "he_yod", "he_vav", "he_tav">>,
       <<"he_nun", "he_zayin", "he_qof", "he_yod", "he_final_mem">>,
       <<"he_pe", "he_yod", "he_nun", "he_vav", "he_yod", " ", "he_he",
         "he_mem", "he_vav", "he_shin", "he_kaf", "he_resh">>,
       <<"he_pe", "he_yod", "he_nun", "he_vav", "he_yod", " ", "he_he",
         "he_dalet", "he_yod", "he_resh", "he_he">>,
       <<"he_pe", "he_yod", "he_nun", "he_vav", "he_yod">>,
       <<"he_bet", "he_tet", "he_het", "he_vav", "he_nun", "he_vav",
         "he_tav">>,
       <<"he_ayin", "he_resh", "he_bet", "he_vav", "he_yod", "he_vav",
         "he_tav">>,
       <<"he_ayin", "he_resh", "he_bet", "he_vav", "he_tav">>,
       <<"he_bet", "he_yod", "he_tet", "he_het", "he_vav", "he_nun",
         "he_vav", "he_tav">>,
       <<"he_he", "he_pe", "he_resh", "he_vav", "he_tav">>,
       <<"he_he", "he_pe", "he_resh", "he_he", " ", "he_yod", "he_samekh",
         "he_vav", "he_dalet", "he_yod", "he_tav">>,
       <<"he_bet", "he_yod", "he_tet", "he_vav", "he_lamed", " ", "he_he",
         "he_he", "he_samekh", "he_kaf", "he_final_mem">>,
       <<"he_shin", "he_vav", "he_nun", "he_vav", "he_tav">>,
       <<"he_he", "he_vav", "he_resh", "he_alef", "he_vav", "he_tav", " ",
         "he_kaf", "he_lamed", "he_lamed", "he_yod", "he_vav", "he_tav">>,
       <<"he_kaf", "he_lamed", "he_lamed", "he_yod">>,
       <<"he_het", "he_tav", "he_yod", "he_mem", "he_vav", "he_tav">>,
       <<"he_het", "he_tav", "he_yod", "he_mem", "he_he">> >>

\* sum(1 for word in keywords if word in str)
KeywordScore(keywords, str) ==
    Cardinality({i \in 1..Len(keywords) : Contains(keywords[i], str)})

\* the whole text reversed, the lines with it
ReverseWholeText(str) == Reverse(str)

\* '\n'.join(line[::-1] for line in str.split('\n'))
RECURSIVE ReverseLines(_)
ReverseLines(str) ==
    IF \E i \in 1..Len(str) : str[i] = "\n"
    THEN LET nl == CHOOSE i \in 1..Len(str) :
                       str[i] = "\n" /\ \A j \in 1..(i - 1) : str[j] # "\n"
         IN  Reverse(SubSeq(str, 1, nl - 1)) \o <<"\n">>
             \o ReverseLines(SubSeq(str, nl + 1, Len(str)))
    ELSE Reverse(str)

\* a tie counted as reversed
DetectAndFixDirectionOnTie(str) ==
    IF KeywordScore(KEYWORDS_REVERSED, str) >= KeywordScore(KEYWORDS_NORMAL, str)
    THEN ReverseLines(str)
    ELSE str

detect_and_fix_direction(str) ==
    IF KeywordScore(KEYWORDS_REVERSED, str) > KeywordScore(KEYWORDS_NORMAL, str)
    THEN ReverseLines(str)
    ELSE str

\* one iteration of sanitize_pii's loop: st = [text, pii_found]
SanitizePiiStep(st, entry) ==
    IF Search(entry.pattern, st.text)
    THEN [text |-> Sub(entry.pattern, entry.replacement, st.text),
          pii_found |-> Append(st.pii_found, entry.name)]
    ELSE st

RECURSIVE SanitizePiiFrom(_, _)
SanitizePiiFrom(st, i) ==
    IF i > Len(PII_PATTERNS) THEN st
    ELSE SanitizePiiFrom(SanitizePiiStep(st, PII_PATTERNS[i]), i + 1)

\* sanitize_pii(str): [text, pii_found]
sanitize_pii(str) == SanitizePiiFrom([text |-> str, pii_found |-> <<>>], 1)

RECURSIVE RemoveNoiseFrom(_, _)
RemoveNoiseFrom(str, i) ==
    IF i > Len(OCR_NOISE_PATTERNS) THEN str
    ELSE RemoveNoiseFrom(Sub(OCR_NOISE_PATTERNS[i], <<" ">>, str), i + 1)

\* [ \t]+
HorizontalRun == <<AtLeast({" ", "\t"}, 1)>>

\* \n\s*\n\s*\n+
BlankLines ==
    <<One("\n"), AtLeast(WhitespaceSet, 0), One("\n"), AtLeast(WhitespaceSet, 0),
      AtLeast({"\n"}, 1)>>

\* the runs of spaces and tabs left as they are
CleanOcrNoiseNoCollapse(str) ==
    Strip(Sub(BlankLines, <<"\n", "\n">>, RemoveNoiseFrom(str, 1)))

clean_ocr_noise(str) ==
    Strip(Sub(BlankLines, <<"\n", "\n">>,
              Sub(HorizontalRun, <<" ">>, RemoveNoiseFrom(str, 1))))

\* U+0590..U+05FF: the Hebrew letters and the gershayim
HebrewBlockSet == HebrewLetterSet \cup {"he_gershayim"}

\* the class alef..yod, U+05D0..U+05D9
OrdinalLetterSet ==
    {"he_alef", "he_bet", "he_gimel", "he_dalet", "he_he", "he_vav", "he_zayin",
     "he_het", "he_tet", "he_yod"}

\* shin, an optional gershayim or apostrophe, het: the abbreviation of
\* "new sheqel"
ShekelAbbreviation ==
    <<One("he_shin"), Rep({"he_gershayim", "'"}, 0, 1), One("he_het")>>

\* [0-9,]+\s* and then the currency word
AmountThen(word) ==
    <<AtLeast(AsciiDigitSet \cup {","}, 1), AtLeast(WhitespaceSet, 0)>> \o word

\* (?![0-9]{1,2}[./][0-9])
NotDateAhead ==
    Ahead(<< <<Rep(AsciiDigitSet, 1, 2), Rep({".", "/"}, 1, 1),
               Rep(AsciiDigitSet, 1, 1)>> >>, TRUE)

\* CLAUSE_NUMBER_PATTERN with marker for its group 1
ClauseOpener(marker) ==
    <<StartOrBehind(WhitespaceSet),
      marker,
      Rep({".", ")"}, 1, 1),
      AtLeast(WhitespaceSet, 1),
      Ahead(<<AmountThen(ShekelAbbreviation),
              AmountThen(<<One("new_sheqel_sign")>>),
              AmountThen(<<One("he_shin"), One("he_qof"), One("he_lamed")>>),
              AmountThen(<<One("he_alef"), One("he_lamed"), One("he_final_pe")>>)>>,
            TRUE),
      NotDateAhead>>

\* the alternatives of group 1, in the order the matcher tries them
CLAUSE_NUMBER_PATTERN ==
    <<ClauseOpener(Rep(AsciiDigitSet, 1, 2)), ClauseOpener(Rep(OrdinalLetterSet, 1, 1))>>

\* a variant of split_pattern: no Hebrew character is asked for after the
\* number
SplitPatternAnyScript ==
    << <<Behind(WhitespaceSet, TRUE),
         AtLeast(WhitespaceSet, 1),
         Rep(AsciiDigitSet, 1, 2),
         One("."),
         AtLeast(WhitespaceSet, 1),
         Ahead(<<AmountThen(ShekelAbbreviation),
                 AmountThen(<<One("new_sheqel_sign")>>)>>, TRUE),
         NotDateAhead>> >>

split_pattern ==
    << <<Behind(WhitespaceSet, TRUE),
         AtLeast(WhitespaceSet, 1),
         Rep(AsciiDigitSet, 1, 2),
         One("."),
         AtLeast(WhitespaceSet, 1),
         Ahead(<<AmountThen(ShekelAbbreviation),
                 AmountThen(<<One("new_sheqel_sign")>>)>>, TRUE),
         NotDateAhead,
         Ahead(<< <<Rep(HebrewBlockSet, 1, 1)>> >>, FALSE)>> >>

\* the starts of the matches pattern.finditer(str) yields from position i on
RECURSIVE FindStarts(_, _, _)
FindStarts(alts, str, i) ==
    IF i > Len(str) THEN <<>>
    ELSE IF MatchAny(alts, str, i) # 0
         THEN <<i>> \o FindStarts(alts, str, MatchAny(alts, str, i))
         ELSE FindStarts(alts, str, i + 1)

\* str.split('\n')
RECURSIVE SplitLines(_)
SplitLines(str) ==
    IF \E i \in 1..Len(str) : str[i] = "\n"
    THEN LET nl == CHOOSE i \in 1..Len(str) :
                       str[i] = "\n" /\ \A j \in 1..(i - 1) : str[j] # "\n"
         IN  <<SubSeq(str, 1, nl - 1)>> \o SplitLines(SubSeq(str, nl + 1, Len(str)))
    ELSE <<str>>

\* len(clause) > 15
LongEnough(clause) == Len(clause) > 15

\* any(header in line for header in SECTION_HEADERS)
IsHeader(line) == \E h \in 1..Len(SECTION_HEADERS) : Contains(SECTION_HEADERS[h], line)

\* bool(CLAUSE_NUMBER_PATTERN.match(line))
IsNumberedClause(line) == MatchAny(CLAUSE_NUMBER_PATTERN, line, 1) # 0

\* a variant of Emit: the accumulator is appended whatever its length
EmitAnyLength(cls, current_clause) ==
    IF current_clause # <<>> THEN Append(cls, Strip(current_clause)) ELSE cls

\* the accumulator, appended to the clauses when it is long enough
Emit(cls, current_clause) ==
    IF current_clause # <<>> /\ LongEnough(Strip(current_clause))
    THEN Append(cls, Strip(current_clause))
    ELSE cls

\* one iteration of the loop over the lines: st = [clauses, current_clause]
GroupLine(st, raw_line) ==
    LET line == Strip(raw_line)
    IN  IF line = <<>> THEN st
        ELSE IF IsHeader(line) \/ IsNumberedClause(line)
             THEN [clauses |-> Emit(st.clauses, st.current_clause),
                   current_clause |-> line]
             ELSE [clauses |-> st.clauses,
                   current_clause |-> IF st.current_clause # <<>>
                                      THEN st.current_clause \o <<" ">> \o line
                                      ELSE line]

RECURSIVE GroupLinesFrom(_, _, _)
GroupLinesFrom(st, lines, i) ==
    IF i > Len(lines) THEN st
    ELSE GroupLinesFrom(GroupLine(st, lines[i]), lines, i + 1)

\* the first pass of split_to_clauses: the clauses after the loop over the
\* lines and the last accumulator
GroupLines(str) ==
    LET st == GroupLinesFrom([clauses |-> <<>>, current_clause |-> <<>>],
                             SplitLines(str), 1)
    IN  Emit(st.clauses, st.current_clause)

\* the stripped piece, when it is long enough
Piece(sub_clause) == IF LongEnough(Strip(sub_clause)) THEN <<Strip(sub_clause)>> ELSE <<>>

\* a variant of CutAt: the pieces in the opposite order
RECURSIVE CutAtLastFirst(_, _, _, _)
CutAtLastFirst(clause, starts, j, prev) ==
    IF j > Len(starts) THEN Piece(SubSeq(clause, prev, Len(clause)))
    ELSE CutAtLastFirst(clause, starts, j + 1, starts[j] + 1)
         \o Piece(SubSeq(clause, prev, starts[j] - 1))

\* the pieces of clause from prev on (1-based), cut at the split points
\* starts[j..]
RECURSIVE CutAt(_, _, _, _)
CutAt(clause, starts, j, prev) ==
    IF j > Len(starts) THEN Piece(SubSeq(clause, prev, Len(clause)))
    ELSE Piece(SubSeq(clause, prev, starts[j] - 1))
         \o CutAt(clause, starts, j + 1, starts[j] + 1)

\* one iteration of the loop over the clauses
ResplitClause(clause) ==
    LET starts == FindStarts(split_pattern, clause, 1)
    IN  IF starts # <<>> THEN CutAt(clause, starts, 1, 1)
        ELSE IF LongEnough(clause) THEN <<clause>> ELSE <<>>

\* the second pass: final_clauses
RECURSIVE Resplit(_)
Resplit(cls) ==
    IF cls = <<>> THEN <<>> ELSE ResplitClause(Head(cls)) \o Resplit(Tail(cls))

\* re.sub(r'\s+', ' ', clause).strip()
NormalizeSpaces(clause) == Strip(Sub(<<AtLeast(WhitespaceSet, 1)>>, <<" ">>, clause))

\* re.match(r'^[\d\W]+$', clause)
OnlyDigitsAndNonWord(clause) ==
    /\ clause # <<>>
    /\ \A i \in 1..Len(clause) : clause[i] \in DigitSet \/ clause[i] \notin WordCharSet

\* one iteration of the final cleanup
CleanClause(clause) ==
    IF OnlyDigitsAndNonWord(NormalizeSpaces(clause)) THEN <<>>
    ELSE <<NormalizeSpaces(clause)>>

\* the third pass: cleaned
RECURSIVE Cleanup(_)
Cleanup(cls) ==
    IF cls = <<>> THEN <<>> ELSE CleanClause(Head(cls)) \o Cleanup(Tail(cls))

split_to_clauses(str) == Cleanup(Resplit(GroupLines(str)))

\* str.lower()
Lower(str) == [i \in 1..Len(str) |-> CharLower(str[i])]

Min(a, b) == IF a < b THEN a ELSE b

\* the loop of calculate_contract_confidence from entry i on
RECURSIVE ConfidenceFrom(_, _, _)
ConfidenceFrom(str, i, score) ==
    IF i > Len(CONTRACT_KEYWORDS) THEN score
    ELSE ConfidenceFrom(str, i + 1,
             IF \/ Contains(CONTRACT_KEYWORDS[i].keyword, str)
                \/ Contains(CONTRACT_KEYWORDS[i].keyword, Lower(str))
             THEN score + CONTRACT_KEYWORDS[i].weight
             ELSE score)

\* no upper limit
NoSaturation(score) == score

Saturate(score) == Min(100, score)

calculate_contract_confidence(str) == Saturate(ConfidenceFrom(str, 1, 0))

---------------------------------------------------------------------------
(* The calls of privacy-shield's lambda_handler the model makes *)

\* the pieces the extracted texts are made of
TokenSet ==
    { <<"0", "5", "2">>,
      <<"1", "2", "3", "4", "5", "6", "7">>,
      <<"1", "2", "3", "4", "5", "6", "7", "8">>,
      <<"x", "@", "y", ".", "c", "o">>,
      <<" ">>,
      <<"-">>,
      <<"|">>,
      <<"\n">>,
      <<"a">>,
      KEYWORDS_NORMAL[1],
      KEYWORDS_REVERSED[1] }

RECURSIVE Flatten(_)
Flatten(tokens) ==
    IF tokens = <<>> THEN <<>> ELSE Head(tokens) \o Flatten(Tail(tokens))

ExtractedTexts ==
    { Flatten(ts) : ts \in UNION { [1..n -> TokenSet] : n \in 0..MaxTokens } }

\* the events: a text, a null text, no text key
Events ==
    { [extractedText |-> PyStr(t)] : t \in ExtractedTexts }
    \cup { [extractedText |-> PyNone], EmptyDict }

ShieldInit ==
    /\ event \in Events
    /\ text = <<>>
    /\ pii_found = <<>>
    /\ pii_i = 0
    /\ spc = "start"
    /\ result = EmptyDict
    /\ ScoreIdle
    /\ HelperIdle
    /\ OcrIdle

\* lines 280-285: text = event.get('extractedText', ''), and len(text) in
\* the log line, which raises TypeError when text is None
HandlerEntry ==
    /\ spc = "start"
    /\ LET v == DictGet(event, "extractedText", PyStr(<<>>))
       IN  IF v.t = "str"
           THEN text' = v.s /\ spc' = "check"
           ELSE text' = text /\ spc' = "raised"
    /\ UNCHANGED <<event, pii_found, pii_i, result, scoreVars, helperVars, ocrVars>>

\* lines 287-292
ReturnNoText ==
    /\ spc = "check"
    /\ text = <<>>
    /\ result' = [error |-> "No text extracted", contractConfidence |-> 0,
                  sanitizedText |-> <<>>]
    /\ spc' = "done"
    /\ UNCHANGED <<event, text, pii_found, pii_i, scoreVars, helperVars, ocrVars>>

\* line 295
FixDirection ==
    /\ spc = "check"
    /\ text # <<>>
    /\ text' = detect_and_fix_direction(text)
    /\ pii_found' = <<>>
    /\ pii_i' = 1
    /\ spc' = "pii"
    /\ UNCHANGED <<event, result, scoreVars, helperVars, ocrVars>>

\* line 298: one pattern of sanitize_pii's loop (lines 122-125)
MaskPii ==
    /\ spc = "pii"
    /\ pii_i <= Len(PII_PATTERNS)
    /\ LET st == SanitizePiiStep([text |-> text, pii_found |-> pii_found],
                                 PII_PATTERNS[pii_i])
       IN  text' = st.text /\ pii_found' = st.pii_found
    /\ pii_i' = pii_i + 1
    /\ UNCHANGED <<event, spc, result, scoreVars, helperVars, ocrVars>>

\* line 301
CleanNoise ==
    /\ spc = "pii"
    /\ pii_i > Len(PII_PATTERNS)
    /\ text' = clean_ocr_noise(text)
    /\ spc' = "cleaned"
    /\ UNCHANGED <<event, pii_found, pii_i, result, scoreVars, helperVars, ocrVars>>

\* lines 304-318
ReturnResult ==
    /\ spc = "cleaned"
    /\ result' = [contractId |-> DictGet(event, "contractId", PyStr(<<"unknown">>)),
                  sanitizedText |-> text,
                  clauses |-> split_to_clauses(text),
                  contractConfidence |-> calculate_contract_confidence(text),
                  piiFound |-> pii_found,
                  bucket |-> DictGet(event, "bucket", PyNone),
                  key |-> DictGet(event, "key", PyNone)]
    /\ spc' = "done"
    /\ UNCHANGED <<event, text, pii_found, pii_i, scoreVars, helperVars, ocrVars>>

ShieldNext ==
    \/ HandlerEntry
    \/ ReturnNoText
    \/ FixDirection
    \/ MaskPii
    \/ CleanNoise
    \/ ReturnResult

ShieldSpec == ShieldInit /\ [][ShieldNext]_vars

---------------------------------------------------------------------------
(* The calls of privacy-shield's helper functions the model makes, one      *)
(* function and one string per behaviour                                    *)

\* the strings made of at most n of the tokens
TextsOf(tokens, n) ==
    { Flatten(ts) : ts \in UNION { [1..k -> tokens] : k \in 0..n } }

DirectionTokens ==
    { KEYWORDS_NORMAL[1], KEYWORDS_NORMAL[2], KEYWORDS_REVERSED[1],
      KEYWORDS_REVERSED[2], <<"\n">>, <<"a">> }

MaskTokens ==
    { <<"1", "2", "3", "4", "5", "6", "7", "8", "9">>,
      <<"1", "2", "-", "3", "4", "5", "-">>,
      <<"6", "7", "8", "9", "0", "1">>,
      <<"0", "5", "2", "1", "2", "3", "4", "5", "6", "7">>,
      <<"x", "@", "y", ".", "c", "o">>,
      <<" ">>,
      <<"a">> }

\* the pieces of a text with a scanner watermark and other noise
WatermarkTokens ==
    { <<"s", "c", "a", "n", "n", "e", "d", " ", "w", "i", "t", "h">>,
      <<"C", "a", "m", "S", "c", "a", "n", "n", "e", "r">>,
      <<"w", "w", "w", ".", "c", "a", "m", "s", "c", "a", "n", "n", "e", "r", ".",
        "c", "o", "m">>,
      <<"a">>, <<" ">>, <<"\n">>, <<"|">>, <<"_">>, <<"u200f">> }

\* the pieces of a text with blanks and blank lines
SpacingTokens ==
    { <<"a">>, <<" ">>, <<"\t">>, <<"\n">> }

ClauseTokens ==
    { <<"a", "b", "c", "d", "e", "f", "g", "h", "i", "j", "k", "l", "m">>,
      <<"a", "b", "c", "d", "e", "f", "g", "h", "i", "j", "k", "l", "m", "n", "o",
        "p">>,
      <<" ", "b">>,
      <<" ">>,
      <<"\n">>,
      <<"_", "_", "_", "_", "_", "_", "_", "_">>,
      <<"1", ".", " ">>,
      <<" ", "2", ".", " ">>,
      SECTION_HEADERS[20],
      <<"5", ",", "2", "0", "0", " ", "new_sheqel_sign">> }

\* the pieces of a text of numbered clauses: a Latin and a Hebrew word of 13
\* letters, the markers "1. " and " 2. ", an amount of money and a date
NumberedTokens ==
    { <<"a", "b", "c", "d", "e", "f", "g", "h", "i", "j", "k", "l", "m">>,
      <<"he_alef", "he_bet", "he_gimel", "he_dalet", "he_he", "he_vav",
        "he_zayin", "he_het", "he_tet", "he_yod", "he_kaf", "he_lamed",
        "he_mem">>,
      <<"\n">>,
      <<"1", ".", " ">>,
      <<" ", "2", ".", " ">>,
      <<"5", ",", "2", "0", "0", " ", "new_sheqel_sign">>,
      <<"2", "6", ".", "1", "0">> }

\* the keywords i..j of the table, one space between them
RECURSIVE KeywordsJoined(_, _)
KeywordsJoined(i, j) ==
    IF i = j THEN CONTRACT_KEYWORDS[i].keyword
    ELSE CONTRACT_KEYWORDS[i].keyword \o <<" ">> \o KeywordsJoined(i + 1, j)

ConfidenceTokens ==
    { CONTRACT_KEYWORDS[1].keyword,
      KeywordsJoined(1, 7),
      KeywordsJoined(8, 10),
      KeywordsJoined(11, 15),
      <<"Z", " ">> }

HelperCalls ==
    ({"detect_and_fix_direction"} \X TextsOf(DirectionTokens, MaxDirectionTokens))
    \cup ({"sanitize_pii"} \X TextsOf(MaskTokens, MaxMaskTokens))
    \cup ({"clean_ocr_noise"}
          \X (TextsOf(WatermarkTokens, MaxWatermarkTokens)
              \cup TextsOf(SpacingTokens, MaxSpacingTokens)))
    \cup ({"split_to_clauses"}
          \X (TextsOf(ClauseTokens, MaxClauseTokens)
              \cup TextsOf(NumberedTokens, MaxNumberedTokens)))
    \cup ({"calculate_contract_confidence"}
          \X TextsOf(ConfidenceTokens, MaxConfidenceTokens))

HelperInit ==
    /\ \E call \in HelperCalls : fn = call[1] /\ arg = call[2]
    /\ hpc = "call"
    /\ clauses = <<>>
    /\ final_clauses = <<>>
    /\ ret = <<>>
    /\ ScoreIdle
    /\ ShieldIdle
    /\ OcrIdle

\* lines 100-108
CallDetectAndFixDirection ==
    /\ hpc = "call"
    /\ fn = "detect_and_fix_direction"
    /\ ret' = detect_and_fix_direction(arg)
    /\ hpc' = "return"
    /\ UNCHANGED <<fn, arg, clauses, final_clauses, scoreVars, shieldVars, ocrVars>>

\* lines 121-126
CallSanitizePii ==
    /\ hpc = "call"
    /\ fn = "sanitize_pii"
    /\ ret' = sanitize_pii(arg)
    /\ hpc' = "return"
    /\ UNCHANGED <<fn, arg, clauses, final_clauses, scoreVars, shieldVars, ocrVars>>

\* lines 139-145
CallCleanOcrNoise ==
    /\ hpc = "call"
    /\ fn = "clean_ocr_noise"
    /\ ret' = clean_ocr_noise(arg)
    /\ hpc' = "return"
    /\ UNCHANGED <<fn, arg, clauses, final_clauses, scoreVars, shieldVars, ocrVars>>

\* lines 176-200: the pass over the lines
GroupLinesPass ==
    /\ hpc = "call"
    /\ fn = "split_to_clauses"
    /\ clauses' = GroupLines(arg)
    /\ hpc' = "grouped"
    /\ UNCHANGED <<fn, arg, final_clauses, ret, scoreVars, shieldVars, ocrVars>>

\* lines 208-233: the pass that splits several clauses of one line
ResplitPass ==
    /\ hpc = "grouped"
    /\ final_clauses' = Resplit(clauses)
    /\ hpc' = "resplit"
    /\ UNCHANGED <<fn, arg, clauses, ret, scoreVars, shieldVars, ocrVars>>

\* lines 236-242: the final cleanup
CleanupPass ==
    /\ hpc = "resplit"
    /\ ret' = Cleanup(final_clauses)
    /\ hpc' = "return"
    /\ UNCHANGED <<fn, arg, clauses, final_clauses, scoreVars, shieldVars, ocrVars>>

\* lines 255-262
CallCalculateContractConfidence ==
    /\ hpc = "call"
    /\ fn = "calculate_contract_confidence"
    /\ ret' = calculate_contract_confidence(arg)
    /\ hpc' = "return"
    /\ UNCHANGED <<fn, arg, clauses, final_clauses, scoreVars, shieldVars, ocrVars>>

HelperNext ==
    \/ CallDetectAndFixDirection
    \/ CallSanitizePii
    \/ CallCleanOcrNoise
    \/ GroupLinesPass
    \/ ResplitPass
    \/ CleanupPass
    \/ CallCalculateContractConfidence

HelperSpec == HelperInit /\ [][HelperNext]_vars

---------------------------------------------------------------------------
(* Claims about privacy-shield *)

\* C10: for every non-empty input text, the sanitizedText returned contains
\* no substring that matches any of the five PII patterns
C10_NoPiiInSanitizedText ==
    (spc = "done" /\ "piiFound" \in DOMAIN result) =>
        \A i \in 1..Len(PII_PATTERNS) :
            ~Search(PII_PATTERNS[i].pattern, result.sanitizedText)

\* lines 287-301: the sanitizedText lambda_handler returns for the text str
SanitizedTextOf(str) ==
    IF str = <<>> THEN <<>>
    ELSE clean_ocr_noise(sanitize_pii(detect_and_fix_direction(str)).text)

\* C11: sanitizing is idempotent on its text output: the pipeline run on the
\* sanitizedText of a result returns that sanitizedText again
C11_SanitizeIdempotent ==
    spc = "done" => SanitizedTextOf(result.sanitizedText) = result.sanitizedText

---------------------------------------------------------------------------
(* Claims about sanitize_pii *)

ReturnedFrom(name) == hpc = "return" /\ fn = name

\* pattern.sub(repl, str) on positions: origins[i] is the position, in the
\* text given to sanitize_pii, of the character that str[i] is a copy of,
\* and 0 for a character of a masking literal
RECURSIVE SubOriginsFrom(_, _, _, _, _)
SubOriginsFrom(pattern, repl, str, origins, i) ==
    IF i > Len(str) THEN <<>>
    ELSE IF MatchFrom(pattern, str, i, 1) # 0
         THEN [j \in 1..Len(repl) |-> 0]
              \o SubOriginsFrom(pattern, repl, str, origins,
                                MatchFrom(pattern, str, i, 1))
         ELSE <<origins[i]>> \o SubOriginsFrom(pattern, repl, str, origins, i + 1)

\* sanitize_pii's loop from pattern i on, on st = [text, origins]
RECURSIVE MaskOriginsFrom(_, _)
MaskOriginsFrom(st, i) ==
    IF i > Len(PII_PATTERNS) THEN st
    ELSE MaskOriginsFrom(
             [text |-> Sub(PII_PATTERNS[i].pattern, PII_PATTERNS[i].replacement,
                           st.text),
              origins |-> SubOriginsFrom(PII_PATTERNS[i].pattern,
                                         PII_PATTERNS[i].replacement,
                                         st.text, st.origins, 1)],
             i + 1)

\* the positions of str whose character is retained in sanitize_pii(str)
RetainedPositions(str) ==
    LET st == MaskOriginsFrom([text |-> str, origins |-> [i \in 1..Len(str) |-> i]], 1)
    IN  {st.origins[j] : j \in 1..Len(st.origins)} \ {0}

\* C12: every substring of the text given to PII masking that matches a
\* category's pattern (every match the pattern finds scanning that text) is
\* replaced in the output by that category's masking literal, and no
\* character of the matched value is retained in the output
C12_EveryMatchMasked ==
    ReturnedFrom("sanitize_pii") =>
        \A c \in 1..Len(PII_PATTERNS) :
            LET starts == FindStarts(<<PII_PATTERNS[c].pattern>>, arg, 1)
            IN  \A m \in 1..Len(starts) :
                    /\ Contains(PII_PATTERNS[c].replacement, ret.text)
                    /\ \A q \in starts[m]..(MatchFrom(PII_PATTERNS[c].pattern, arg,
                                                       starts[m], 1) - 1) :
                           q \notin RetainedPositions(arg)

LabelFound(name) == \E j \in 1..Len(ret.pii_found) : ret.pii_found[j] = name

\* C13: piiFound holds a category's label if and only if that category's
\* pattern matches the text given to PII masking, and holds it once; a text
\* with an ID number and an e-mail address yields both labels and a text in
\* which neither pattern matches any more
C13_LabelsIffPatternMatches ==
    ReturnedFrom("sanitize_pii") =>
        /\ \A c \in 1..Len(PII_PATTERNS) :
               LabelFound(PII_PATTERNS[c].name) <=> Search(PII_PATTERNS[c].pattern, arg)
        /\ \A j, k \in 1..Len(ret.pii_found) :
               ret.pii_found[j] = ret.pii_found[k] => j = k
        /\ (Search(PII_PATTERNS[1].pattern, arg) /\ Search(PII_PATTERNS[4].pattern, arg)) =>
               /\ LabelFound("israeli_id")
               /\ LabelFound("email")
               /\ ~Search(PII_PATTERNS[1].pattern, ret.text)
               /\ ~Search(PII_PATTERNS[4].pattern, ret.text)

---------------------------------------------------------------------------
(* Claims about split_to_clauses *)

\* of the model's characters, those that are not a digit, a punctuation mark
\* or other sign, or whitespace: the letters
LetterSet == AsciiLetterSet \cup HebrewLetterSet

\* C14: every clause split_to_clauses returns has a trimmed length above 15
\* and holds at least one character that is not a digit, punctuation or
\* whitespace
C14_ClausesLongWithLetter ==
    ReturnedFrom("split_to_clauses") =>
        \A j \in 1..Len(ret) :
            /\ Len(Strip(ret[j])) > 15
            /\ \E i \in 1..Len(ret[j]) : ret[j][i] \in LetterSet

---------------------------------------------------------------------------
(* Claims about detect_and_fix_direction *)

\* the number of places of str at which word occurs
Occurrences(word, str) ==
    Cardinality({i \in 1..(Len(str) - Len(word) + 1) :
                     SubSeq(str, i, i + Len(word) - 1) = word})

\* the number of occurrences in str of the keywords i.. together
RECURSIVE OccurrencesFrom(_, _, _)
OccurrencesFrom(keywords, str, i) ==
    IF i > Len(keywords) THEN 0
    ELSE Occurrences(keywords[i], str) + OccurrencesFrom(keywords, str, i + 1)

OccurrenceCount(keywords, str) == OccurrencesFrom(keywords, str, 1)

\* the number of the keywords that occur in str at all
PresentCount(keywords, str) ==
    Cardinality({i \in 1..Len(keywords) : Occurrences(keywords[i], str) > 0})

\* the first and the last position of the line of str that position i is in
LineStart(str, i) ==
    CHOOSE a \in 1..i :
        /\ \A j \in a..i : str[j] # "\n"
        /\ a = 1 \/ str[a - 1] = "\n"

LineEnd(str, i) ==
    CHOOSE b \in i..Len(str) :
        /\ \A j \in i..b : str[j] # "\n"
        /\ b = Len(str) \/ str[b + 1] = "\n"

\* out is str with the characters of every line in reverse order and the
\* lines in their order
IsMirror(out, str) ==
    /\ Len(out) = Len(str)
    /\ \A i \in 1..Len(str) :
           IF str[i] = "\n" THEN out[i] = "\n"
           ELSE out[i] = str[LineStart(str, i) + LineEnd(str, i) - i]

\* C15 as stated: the text is mirrored exactly when the reversed keywords
\* have strictly more occurrences in the whole text than the normal
\* keywords, and is returned unchanged otherwise
C15_MirroredIffMoreReversedOccurrences ==
    ReturnedFrom("detect_and_fix_direction") =>
        IF OccurrenceCount(KEYWORDS_REVERSED, arg) > OccurrenceCount(KEYWORDS_NORMAL, arg)
        THEN IsMirror(ret, arg)
        ELSE ret = arg

\* C15 amended: the text is mirrored (every line reversed, lines in order)
\* exactly when strictly more of the reversed keywords than of the normal
\* keywords are present in the whole text, each keyword counted once
\* however often it occurs, and is returned unchanged otherwise
C15_MirroredIffMoreReversedPresent ==
    ReturnedFrom("detect_and_fix_direction") =>
        IF PresentCount(KEYWORDS_REVERSED, arg) > PresentCount(KEYWORDS_NORMAL, arg)
        THEN IsMirror(ret, arg)
        ELSE ret = arg

\* a text of two lines with more reversed keywords was mirrored line by line
C15_Witness ==
    /\ ReturnedFrom("detect_and_fix_direction")
    /\ PresentCount(KEYWORDS_REVERSED, arg) > PresentCount(KEYWORDS_NORMAL, arg)
    /\ PresentCount(KEYWORDS_NORMAL, arg) > 0
    /\ \E i \in 2..(Len(arg) - 1) : arg[i] = "\n"
    /\ ret # arg
    /\ ret # Reverse(arg)

\* C16 as stated, the counts being the numbers of occurrences: a text with
\* equal counts of normal and reversed keywords is returned unchanged
C16_EqualOccurrencesUnchanged ==
    (/\ ReturnedFrom("detect_and_fix_direction")
     /\ OccurrenceCount(KEYWORDS_REVERSED, arg) = OccurrenceCount(KEYWORDS_NORMAL, arg))
        => ret = arg

\* C16 amended: a text in which as many of the reversed keywords as of the
\* normal keywords are present (also none of either) is returned unchanged
C16_EqualPresentUnchanged ==
    (/\ ReturnedFrom("detect_and_fix_direction")
     /\ PresentCount(KEYWORDS_REVERSED, arg) = PresentCount(KEYWORDS_NORMAL, arg))
        => ret = arg

\* a text with one keyword of each kind, which mirroring would change, was
\* returned unchanged
C16_Witness ==
    /\ ReturnedFrom("detect_and_fix_direction")
    /\ PresentCount(KEYWORDS_REVERSED, arg) = 1
    /\ PresentCount(KEYWORDS_NORMAL, arg) = 1
    /\ ~IsMirror(arg, arg)
    /\ ret = arg

---------------------------------------------------------------------------
(* Claims about clean_ocr_noise *)

\* C17: the output of noise cleaning contains no match of any of the five
\* noise patterns
C17_NoNoiseAfterCleaning ==
    ReturnedFrom("clean_ocr_noise") =>
        \A i \in 1..Len(OCR_NOISE_PATTERNS) : ~Search(OCR_NOISE_PATTERNS[i], ret)

\* the horizontal whitespace characters: space and tab
HorizontalSet == {" ", "\t"}

\* three newlines at positions i < j < k of str with nothing but
\* whitespace between them
ThreeNewlines(str, i, j, k) ==
    /\ i < j /\ j < k
    /\ str[i] = "\n" /\ str[j] = "\n" /\ str[k] = "\n"
    /\ \A q \in i..k : str[q] \in WhitespaceSet

---------------------------------------------------------------------------
(* Claims about lambda_handler without a text *)

\* the event has no extractedText, a null one or an empty one
NoInputText ==
    DictGet(event, "extractedText", PyStr(<<>>)) \in {PyNone, PyStr(<<>>)}

\* C19: if the input text is empty or absent (missing key or null), the
\* handler returns contractConfidence 0, an empty sanitizedText and an empty
\* clauses list, without running any transform and without raising
C19_NoTextReturnsEmptyResult ==
    (spc # "idle" /\ NoInputText) =>
        /\ spc \in {"start", "check", "done"}
        /\ spc = "done" =>
               /\ DictGet(result, "contractConfidence", PyNone) = 0
               /\ DictGet(result, "sanitizedText", PyNone) = <<>>
               /\ DictGet(result, "clauses", PyNone) = <<>>

---------------------------------------------------------------------------
(* Claims about calculate_contract_confidence *)

\* the entries of the keyword table that occur in str or in str lowercased
EntriesIn(str) ==
    {i \in 1..Len(CONTRACT_KEYWORDS) :
         \/ Occurrences(CONTRACT_KEYWORDS[i].keyword, str) > 0
         \/ Occurrences(CONTRACT_KEYWORDS[i].keyword, Lower(str)) > 0}

\* the sum of the weights of the entries in S
RECURSIVE WeightSum(_)
WeightSum(S) ==
    IF S = {} THEN 0
    ELSE LET i == CHOOSE i \in S : TRUE
         IN  CONTRACT_KEYWORDS[i].weight + WeightSum(S \ {i})

\* C20: calculate_contract_confidence returns min(100, S), S being the sum
\* of the weights of the table entries that occur in the text, each counted
\* once; the result is an integer of 0..100
C20_ConfidenceIsCappedWeightSum ==
    ReturnedFrom("calculate_contract_confidence") =>
        /\ ret = IF WeightSum(EntriesIn(arg)) > 100 THEN 100 ELSE WeightSum(EntriesIn(arg))
        /\ ret \in 0..100

\* a text in which an entry occurs twice and whose weights add up to more
\* than 100 has confidence 100
C20_Witness ==
    /\ ReturnedFrom("calculate_contract_confidence")
    /\ \E i \in EntriesIn(arg) : Occurrences(CONTRACT_KEYWORDS[i].keyword, arg) > 1
    /\ WeightSum(EntriesIn(arg)) > 100
    /\ ret = 100


---------------------------------------------------------------------------
(* Claims about the passes of split_to_clauses *)

\* the lines of str that are not blank, stripped
RECURSIVE NonBlankFrom(_, _)
NonBlankFrom(lines, i) ==
    IF i > Len(lines) THEN <<>>
    ELSE (IF Strip(lines[i]) = <<>> THEN <<>> ELSE <<Strip(lines[i])>>)
         \o NonBlankFrom(lines, i + 1)

NonBlankLines(str) == NonBlankFrom(SplitLines(str), 1)

\* the line holds a section header or matches the clause-opening pattern
StartsClause(line) == IsHeader(line) \/ IsNumberedClause(line)

\* lines[i..j] joined by one space
RECURSIVE JoinLines(_, _, _)
JoinLines(lines, i, j) ==
    IF i = j THEN lines[i] ELSE lines[i] \o <<" ">> \o JoinLines(lines, i + 1, j)

\* the last line of the group that begins with lines[i]: the line before the
\* next one that starts a clause
GroupEnd(lines, i) ==
    CHOOSE j \in i..Len(lines) :
        /\ \A k \in (i + 1)..j : ~StartsClause(lines[k])
        /\ (j < Len(lines) => StartsClause(lines[j + 1]))

\* the groups of lines from line i on, each joined by one space, those of a
\* trimmed length above 15 only
RECURSIVE GroupsFrom(_, _)
GroupsFrom(lines, i) ==
    IF i > Len(lines) THEN <<>>
    ELSE LET group == Strip(JoinLines(lines, i, GroupEnd(lines, i)))
         IN  (IF Len(group) > 15 THEN <<group>> ELSE <<>>)
             \o GroupsFrom(lines, GroupEnd(lines, i) + 1)

\* the first line of str is a numbered opener and no later line holds a
\* header or matches the opening pattern
OpenerThenPlainLines(str) ==
    LET lines == SplitLines(str)
    IN  /\ IsNumberedClause(Strip(lines[1]))
        /\ \A k \in 2..Len(lines) :
               Strip(lines[k]) = <<>> \/ ~StartsClause(Strip(lines[k]))

AllLinesJoined(str) == JoinLines(NonBlankLines(str), 1, Len(NonBlankLines(str)))

\* C21: after the pass over the lines the clauses are the groups of lines, a
\* group beginning at the first non-blank line and at every line that holds a
\* section header or matches the clause-opening pattern, its lines joined by
\* one space, and only the groups of a trimmed length above 15 are there; a
\* text whose first line is a numbered opener and whose other lines neither
\* hold a header nor match the pattern gives all its lines as one clause when
\* they are longer than 15 together, and no clause otherwise
C21_LinesGrouped ==
    (hpc = "grouped") =>
        /\ clauses = GroupsFrom(NonBlankLines(arg), 1)
        /\ OpenerThenPlainLines(arg) =>
               clauses = IF Len(AllLinesJoined(arg)) > 15
                         THEN <<AllLinesJoined(arg)>> ELSE <<>>

\* C21 as stated: a text whose first line is a numbered opener and whose other
\* lines neither hold a header nor match the pattern gives exactly one clause,
\* made of all its lines
C21_OpenerThenPlainLinesGiveOneClause ==
    (hpc = "grouped" /\ OpenerThenPlainLines(arg)) =>
        clauses = <<AllLinesJoined(arg)>>

C21_Witness ==
    /\ hpc = "grouped"
    /\ OpenerThenPlainLines(arg)
    /\ Len(NonBlankLines(arg)) >= 2
    /\ clauses = <<AllLinesJoined(arg)>>


\* the place after the marker of a line (one or two digits or one ordinal
\* letter) and its "." or ")", 0 when the line does not begin so
AfterMarker(line) ==
    IF Len(line) >= 3 /\ line[1] \in AsciiDigitSet /\ line[2] \in AsciiDigitSet
       /\ line[3] \in {".", ")"}
    THEN 4
    ELSE IF Len(line) >= 2 /\ line[1] \in AsciiDigitSet \cup OrdinalLetterSet
            /\ line[2] \in {".", ")"}
         THEN 3
         ELSE 0

\* the first place from i on that holds no whitespace
RECURSIVE AfterBlanks(_, _)
AfterBlanks(line, i) ==
    IF i <= Len(line) /\ line[i] \in WhitespaceSet THEN AfterBlanks(line, i + 1)
    ELSE i

\* a number and a currency word or symbol, or a date fragment
AmountOrDate ==
    <<AmountThen(ShekelAbbreviation),
      AmountThen(<<One("new_sheqel_sign")>>),
      AmountThen(<<One("he_shin"), One("he_qof"), One("he_lamed")>>),
      AmountThen(<<One("he_alef"), One("he_lamed"), One("he_final_pe")>>),
      <<Rep(AsciiDigitSet, 1, 2), Rep({".", "/"}, 1, 1), Rep(AsciiDigitSet, 1, 1)>> >>

\* the line is a marker, whitespace, and then an amount of money or a date
MarkerThenAmountOrDate(line) ==
    /\ AfterMarker(line) # 0
    /\ AfterMarker(line) <= Len(line)
    /\ line[AfterMarker(line)] \in WhitespaceSet
    /\ MatchAny(AmountOrDate, line, AfterBlanks(line, AfterMarker(line))) # 0

\* C22: a line that begins with a marker, "." or ")" and whitespace is not
\* taken as the opening of a clause when an amount of money or a date fragment
\* follows the whitespace, however much whitespace there is
C22_AmountOrDateIsNoOpener ==
    (hpc = "grouped") =>
        \A k \in 1..Len(NonBlankLines(arg)) :
            MarkerThenAmountOrDate(NonBlankLines(arg)[k]) =>
                ~IsNumberedClause(NonBlankLines(arg)[k])


\* the clauses cls occur in str from place from on, one after the other and
\* without overlap
RECURSIVE OccurInOrder(_, _, _)
OccurInOrder(cls, str, from) ==
    IF cls = <<>> THEN TRUE
    ELSE LET places == {p \in from..(Len(str) - Len(Head(cls)) + 1) :
                            SubSeq(str, p, p + Len(Head(cls)) - 1) = Head(cls)}
         IN  /\ places # {}
             /\ OccurInOrder(Tail(cls), str,
                             (CHOOSE p \in places : \A q \in places : p <= q)
                             + Len(Head(cls)))

\* C23: the clauses split_to_clauses returns are spans of the text in the
\* order of the document: in the text with its whitespace runs collapsed to
\* single spaces they occur one after the other, without overlap, in the
\* order of the returned list
C23_ClausesAreSpansInOrder ==
    ReturnedFrom("split_to_clauses") => OccurInOrder(ret, NormalizeSpaces(arg), 1)

C23_Witness ==
    /\ ReturnedFrom("split_to_clauses")
    /\ Len(clauses) = 1
    /\ Len(ret) = 2
    /\ ret[1] # ret[2]

\* no character of the text lies in U+0590..U+05FF
NoHebrew(str) == \A i \in 1..Len(str) : str[i] \notin HebrewBlockSet

\* C26: for a text without a character of the Hebrew block the second pass
\* splits nothing: its clauses are those of the pass over the lines, and every
\* clause returned is one of them with its whitespace normalised
C26_NoHebrewNoResplit ==
    (fn = "split_to_clauses" /\ hpc \in {"resplit", "return"} /\ NoHebrew(arg)) =>
        /\ final_clauses = clauses
        /\ hpc = "return" =>
               \A j \in 1..Len(ret) :
                   \E k \in 1..Len(clauses) : ret[j] = NormalizeSpaces(clauses[k])

C26_Witness ==
    /\ ReturnedFrom("split_to_clauses")
    /\ NoHebrew(arg)
    /\ Len(ret) = 1
    /\ Contains(<<"m", " ", "2", ".", " ", "a">>, ret[1])


---------------------------------------------------------------------------
(* Claims about applying a function to its own result *)

\* C28: the text detect_and_fix_direction returns is returned unchanged when
\* the function is applied to it, since no more reversed keywords than
\* normal keywords are present in it: mirroring the lines exchanges the two
\* counts
C28_DirectionIdempotent ==
    ReturnedFrom("detect_and_fix_direction") =>
        /\ detect_and_fix_direction(ret) = ret
        /\ KeywordScore(KEYWORDS_REVERSED, ret) <= KeywordScore(KEYWORDS_NORMAL, ret)
        /\ ret # arg =>
               /\ KeywordScore(KEYWORDS_NORMAL, ret) = KeywordScore(KEYWORDS_REVERSED, arg)
               /\ KeywordScore(KEYWORDS_REVERSED, ret) = KeywordScore(KEYWORDS_NORMAL, arg)

C28_Witness ==
    /\ ReturnedFrom("detect_and_fix_direction")
    /\ ret # arg
    /\ KeywordScore(KEYWORDS_NORMAL, arg) = 1
    /\ KeywordScore(KEYWORDS_REVERSED, ret) = 1
    /\ KeywordScore(KEYWORDS_NORMAL, ret) = 2
    /\ detect_and_fix_direction(ret) = ret


---------------------------------------------------------------------------
(* Further claims about recalculate_scores *)

\* C24: for every category of a returned contract the penalties of the
\* accepted issues of the category, and the penalties reported for it, add up
\* to 20 minus the score of the category
C24_PenaltiesAreTwentyMinusScore ==
    ReturnedContract =>
        \A c \in CategorySet :
            /\ ClaimPenaltySum(InputIssues, c, 1) = 20 - OutScore(c)
            /\ analysis_json.score_breakdown[c].penalties = 20 - OutScore(c)

\* one issue has been taken through the body of the loop
IssueStep ==
    /\ pc = "loop"
    /\ pc' \in {"loop", "raised"}
    /\ <<pc', idx'>> # <<pc, idx>>

C25_Step ==
    IssueStep =>
        /\ \A c \in CategorySet :
              /\ category_scores'[c] \in 0..20
              /\ category_scores'[c] <= category_scores[c]
              /\ category_penalties_sum'[c] >= category_penalties_sum[c]
        /\ ~ClaimAccepted(InputIssues[idx]) =>
              /\ category_scores' = category_scores
              /\ category_penalties_sum' = category_penalties_sum

\* C25: while the issues are processed in input order, after every issue each
\* category score lies in [0,20] and is not above what it was before the
\* issue, no penalty sum is below what it was, and an issue that is not
\* accepted changes no score and no penalty sum
C25_ScoresOnlyFall == [][C25_Step]_vars

\* C25 witness: an accepted issue has brought a score to the floor, its
\* penalty sum above 20, and an issue that is not accepted has followed
C25_Witness ==
    /\ pc = "loop"
    /\ idx = 3
    /\ ClaimAccepted(InputIssues[1])
    /\ ~ClaimAccepted(InputIssues[2])
    /\ category_scores["tenant_rights"] = 0
    /\ category_penalties_sum["tenant_rights"] = 25
    /\ Len(filtered_issues) = 1

\* C27: recalculate_scores applied to what it returned returns the same dict:
\* the same issues, score_breakdown and overall_risk_score, for a contract and
\* for a document that is not one
C27_RecalculationIdempotent ==
    Returned =>
        LET again == RecalculateScores(analysis_json)
        IN  /\ again.exc = ""
            /\ DictGet(again.result, "issues", <<>>) = DictGet(analysis_json, "issues", <<>>)
            /\ again.result.score_breakdown = analysis_json.score_breakdown
            /\ again.result.overall_risk_score = OutOverall
            /\ again.result = analysis_json

\* C27 witness: a contract returned with one issue dropped and one that
\* lowered a score
C27_Witness ==
    /\ ReturnedContract
    /\ Len(InputIssues) = 2
    /\ Len(analysis_json.issues) = 1
    /\ OutOverall < 100
    /\ RecalculateScores(analysis_json).result = analysis_json

\* C29: when the answer could not be parsed, the analysis returned has
\* overall_risk_score 100, five scores of 20, no issues and its parse_error:
\* the 50 and the 10s of the fallback are replaced by the recalculation, which
\* does not raise
C29_FallbackRecalculated ==
    (analysis_in \in FallbackResponses) =>
        /\ pc \in {"call", "loop", "done"}
        /\ Returned =>
              /\ OutOverall = 100
              /\ \A c \in CategorySet : OutScore(c) = 20
              /\ analysis_json.issues = <<>>
              /\ "parse_error" \in DOMAIN analysis_json
              /\ analysis_json.parse_error = analysis_in.parse_error

C29_Witness ==
    /\ Returned
    /\ analysis_in \in FallbackResponses
    /\ analysis_in.overall_risk_score = 50
    /\ analysis_in.score_breakdown["tenant_rights"].score = 10
    /\ OutOverall = 100
    /\ analysis_json.parse_error = "No JSON found"


---------------------------------------------------------------------------
(* RentGuard_AzureOCR: the extraction loop of lambda_handler *)

MAX_PAGES_TOTAL == 20

PAGES_PER_REQUEST == 2

\* the fields of the event the handler copies into its result
OcrEvent == [bucket |-> "bucket", key |-> "contract-c1.pdf", contractId |-> "c1"]

\* response.status of an analyze request
ResponseStatuses == {202, 400, 429, 500}

\* poll_data.get('status', 'failed')
PollStatuses == {"notStarted", "running", "succeeded", "failed"}

\* status in ['running', 'notStarted']
StillRunning(s) == s \in {"running", "notStarted"}

\* retries > 30
PollLimitReached(n) == n > 30

\* a variant of ShortBatch: no batch counts as the last one
ShortBatchNever(n) == FALSE

\* pages_returned < PAGES_PER_REQUEST
ShortBatch(n) == n < PAGES_PER_REQUEST

\* range(1, MAX_PAGES_TOTAL + 1, PAGES_PER_REQUEST) has no value after page
LastBatch(page) == page + PAGES_PER_REQUEST > MAX_PAGES_TOTAL

\* lines 115-116 and the first value of the for loop
OcrInit ==
    /\ opc = "request"
    /\ start_page = 1
    /\ response_status = 0
    /\ status = ""
    /\ retries = 0
    /\ pages_returned = 0
    /\ all_text = <<>>
    /\ total_pages = 0
    /\ most_pages = 0
    /\ ocr_result = EmptyDict
    /\ ScoreIdle
    /\ ShieldIdle
    /\ HelperIdle

\* lines 120-139: the analyze request for the pages start_page..end_page,
\* which may raise, as may the read of the Operation-Location header
OcrRequest ==
    /\ opc = "request"
    /\ \/ /\ opc' = "raised"
          /\ UNCHANGED <<response_status, status, retries>>
       \/ \E answer \in ResponseStatuses :
             /\ response_status' = answer
             /\ IF answer # 202
                THEN opc' = "return" /\ UNCHANGED <<status, retries>>
                ELSE opc' = "poll" /\ status' = "running" /\ retries' = 0
    /\ UNCHANGED <<start_page, pages_returned, all_text, total_pages, most_pages,
                   ocr_result, scoreVars, shieldVars, helperVars>>

\* lines 140-148: one poll, which may raise
OcrPoll ==
    /\ opc = "poll"
    /\ StillRunning(status)
    /\ ~PollLimitReached(retries)
    /\ \/ /\ opc' = "raised"
          /\ UNCHANGED <<status, retries>>
       \/ /\ status' \in PollStatuses
          /\ retries' = retries + 1
          /\ opc' = "poll"
    /\ UNCHANGED <<start_page, response_status, pages_returned, all_text,
                   total_pages, most_pages, ocr_result, scoreVars, shieldVars,
                   helperVars>>

\* lines 141-143: the poll limit ends the while loop
OcrPollTimeout ==
    /\ opc = "poll"
    /\ StillRunning(status)
    /\ PollLimitReached(retries)
    /\ opc' = "extract"
    /\ UNCHANGED <<start_page, response_status, status, retries, pages_returned,
                   all_text, total_pages, most_pages, ocr_result, scoreVars,
                   shieldVars, helperVars>>

\* line 140: the while loop ends with a final status
OcrPollEnd ==
    /\ opc = "poll"
    /\ ~StillRunning(status)
    /\ opc' = "extract"
    /\ UNCHANGED <<start_page, response_status, status, retries, pages_returned,
                   all_text, total_pages, most_pages, ocr_result, scoreVars,
                   shieldVars, helperVars>>

\* lines 151-164 and the next value of the for loop
OcrExtract ==
    /\ opc = "extract"
    /\ status = "succeeded"
    /\ \E n \in 0..MaxPagesReturned :
          /\ pages_returned' = n
          /\ IF n = 0
             THEN /\ opc' = "return"
                  /\ UNCHANGED <<start_page, all_text, total_pages, most_pages>>
             ELSE /\ all_text' = Append(all_text, start_page)
                  /\ total_pages' = total_pages + n
                  /\ most_pages' = Max(most_pages, n)
                  /\ IF ShortBatch(n) \/ LastBatch(start_page)
                     THEN opc' = "return" /\ UNCHANGED start_page
                     ELSE /\ opc' = "request"
                          /\ start_page' = start_page + PAGES_PER_REQUEST
    /\ UNCHANGED <<response_status, status, retries, ocr_result, scoreVars,
                   shieldVars, helperVars>>

\* lines 165-167
OcrFailed ==
    /\ opc = "extract"
    /\ status # "succeeded"
    /\ opc' = "return"
    /\ UNCHANGED <<start_page, response_status, status, retries, pages_returned,
                   all_text, total_pages, most_pages, ocr_result, scoreVars,
                   shieldVars, helperVars>>

\* lines 170-178
OcrReturn ==
    /\ opc = "return"
    /\ ocr_result' = [statusCode |-> 200,
                      extractedText |-> all_text,
                      pagesCount |-> total_pages,
                      bucket |-> OcrEvent.bucket,
                      key |-> OcrEvent.key,
                      contractId |-> OcrEvent.contractId]
    /\ opc' = "done"
    /\ UNCHANGED <<start_page, response_status, status, retries, pages_returned,
                   all_text, total_pages, most_pages, scoreVars, shieldVars,
                   helperVars>>

OcrNext ==
    \/ OcrRequest
    \/ OcrPoll
    \/ OcrPollTimeout
    \/ OcrPollEnd
    \/ OcrExtract
    \/ OcrFailed
    \/ OcrReturn

OcrSpec == OcrInit /\ [][OcrNext]_vars

\* the handler runs alone and every call it makes returns or raises: a step
\* that can be taken is taken
OcrFairSpec == OcrSpec /\ WF_vars(OcrNext)

---------------------------------------------------------------------------
(* Claims about the OCR handler *)

\* the loop is left
OcrStopped == opc \in {"return", "done", "raised"}

C30_Bounds ==
    /\ (opc \in {"request", "poll", "extract"}) =>
           start_page \in {2 * k - 1 : k \in 1..10}
    /\ retries \in 0..31
    /\ Len(all_text) <= 10
    /\ \A i \in 1..Len(all_text) : all_text[i] = 2 * i - 1
    /\ most_pages <= 2 => total_pages <= 20
    /\ opc = "done" =>
           /\ ocr_result.extractedText = all_text
           /\ ocr_result.pagesCount = total_pages
           /\ most_pages <= 2 => ocr_result.pagesCount <= 20

C30_Step ==
    /\ start_page' \in {start_page, start_page + 2}
    /\ (opc = "request" /\ opc' # "request") =>
           /\ Len(all_text) = (start_page - 1) \div 2
           /\ (opc' # "raised" /\ response_status' # 202) => opc' = "return"
           /\ all_text' = all_text /\ total_pages' = total_pages
    /\ retries' # retries =>
           retries' = 0 \/ (retries <= 30 /\ retries' = retries + 1)
    /\ (opc = "poll" /\ opc' = "extract" /\ status # "succeeded") =>
           ~StillRunning(status) \/ retries = 31
    /\ (opc = "extract" /\ opc' # "extract") =>
           /\ (status # "succeeded" \/ pages_returned' < 2) => opc' = "return"
           /\ (status # "succeeded" \/ pages_returned' = 0) =>
                  all_text' = all_text /\ total_pages' = total_pages
    /\ OcrStopped =>
           /\ opc' \in {"return", "done", "raised"}
           /\ all_text' = all_text /\ total_pages' = total_pages
           /\ start_page' = start_page /\ retries' = retries

\* C30: the extraction loop ends, by a return or by an exception; it makes at
\* most 10 requests, for the pages 1-2 up to 19-20, and at most 31 polls for a
\* batch; it is left at the first batch that is not accepted, does not
\* succeed within the polls, returns no page or returns fewer than 2 pages,
\* and the handler then returns the text and the page count accumulated; when
\* no batch returned more than 2 pages the page count is at most 20
C30_LoopBoundedAndEnds ==
    /\ []C30_Bounds
    /\ [][C30_Step]_vars
    /\ <>(opc \in {"done", "raised"})

\* C30 witness: all ten batches read, two pages each, after a batch that was
\* polled 31 times
C30_Witness ==
    /\ opc = "done"
    /\ ocr_result.pagesCount = 20
    /\ Len(ocr_result.extractedText) = 10
    /\ retries = 31
    /\ status = "succeeded"

=============================================================================
